---- MODULE Spec2Model ----
(***************************************************************************)
(* Model of scripts/processor.py of the Series Correction Project: the     *)
(* three detectors, the three correctors and the process_data pipeline.    *)
(*                                                                         *)
(* Numbers.  The program computes on float64/int64 cells.  The model       *)
(* computes on integers: a value cell holds a whole number of quanta, Unit *)
(* quanta making 1.0; a time cell holds whole seconds (int64); NaN is a    *)
(* distinguished cell.  Statistics the code obtains by a division are kept *)
(* exact by carrying the denominator (Median2 is twice the median,         *)
(* comparisons are cross-multiplied).  Where the code stores a quotient    *)
(* (a median, a mean, an interpolated value) the model stores it rounded   *)
(* down to the quantum; the inputs are whole multiples of Unit, so the     *)
(* halves of a first and a second median are exact.                        *)
(*                                                                         *)
(* Positions.  Python positions are 0-based; the model keeps them, and     *)
(* stores columns as TLA+ sequences read through At and Slice.  A table's  *)
(* index is the RangeIndex 0..n-1, as after reset_index(drop=True).        *)
(***************************************************************************)
EXTENDS Integers, Sequences, FiniteSets, TLC

VARIABLES
    data,            \* the caller's table (argument `data`)
    config,          \* the caller's configuration mapping (process_data)
    pc,              \* position in process_data / in the direct call
    processed_data,  \* process_data's working table
    gap_indices,     \* findings of the gap detector in this call
    outlier_indices, \* findings of the outlier detector in this call
    jump_indices,    \* findings of the jump detector in this call
    result,          \* what the call returned (or raised)
    log,             \* the stages run so far, in order, with what they read
    call,            \* a direct call of one detector/corrector: its arguments
    batch            \* one run of batch_process: its arguments, files and progress

vars == <<data, config, pc, processed_data, gap_indices, outlier_indices,
          jump_indices, result, log, call, batch>>

-----------------------------------------------------------------------------
(* Cells and sequences *)

\* np.nan: the missing marker of a numeric cell.
NaN == -2147483647

\* Quanta per 1.0 in a value cell.
Unit == 2 * 2

\* 1e-6, the epsilon of detect_jumps and detect_outliers, as 1/Micro units.
Micro == 1000000

Abs(x) == IF x < 0 THEN -x ELSE x

Min(a, b) == IF a < b THEN a ELSE b

Max(a, b) == IF a > b THEN a ELSE b

Range(s) == {s[i] : i \in DOMAIN s}

\* s[i] for a 0-based position i.
At(s, i) == s[i + 1]

\* s[a:b] for 0-based a, b (clipped to the sequence as Python clips a slice).
Slice(s, a, b) ==
    LET lo == Max(a, 0)
        hi == Min(b, Len(s))
    IN IF lo >= hi THEN <<>> ELSE SubSeq(s, lo + 1, hi)

\* Float arithmetic with a missing operand gives a missing result.
Add(a, b) == IF a = NaN \/ b = NaN THEN NaN ELSE a + b

Sub(a, b) == IF a = NaN \/ b = NaN THEN NaN ELSE a - b

\* The 0-based positions of s, ascending, whose element satisfies Test.
PositionsWhere(s, Test(_)) ==
    LET all == [i \in 1..Len(s) |-> i - 1]
    IN SelectSeq(all, LAMBDA p : Test(s[p + 1]))

\* The non-missing elements of s, in order (pandas statistics skip NaN).
DropNaN(s) == SelectSeq(s, LAMBDA x : x # NaN)

RECURSIVE InsertSorted(_, _)
InsertSorted(x, s) ==
    IF s = <<>> THEN <<x>>
    ELSE IF x < Head(s) THEN <<x>> \o s
    ELSE <<Head(s)>> \o InsertSorted(x, Tail(s))

RECURSIVE SortAsc(_)
SortAsc(s) == IF s = <<>> THEN <<>> ELSE InsertSorted(s[Len(s)], SortAsc(SubSeq(s, 1, Len(s) - 1)))

\* Twice pd.Series(s).median(): NaN skipped, NaN when nothing is left, the
\* mean of the two middle values for an even count.
Median2(s) ==
    LET v == SortAsc(DropNaN(s))
        k == Len(v)
    IN IF k = 0 THEN NaN
       ELSE IF k % 2 = 1 THEN 2 * v[(k + 1) \div 2]
       ELSE v[k \div 2] + v[k \div 2 + 1]

-----------------------------------------------------------------------------
(* Tables: cols is the column order, dtype the kind of each column ("num", *)
(* "datetime" or "str"), rows the rows in order, each a function from the  *)
(* column names to cells.                                                  *)

Len_(t) == Len(t.rows)

Column(t, col) == [i \in 1..Len(t.rows) |-> t.rows[i][col]]

HasColumn(t, col) == col \in Range(t.cols)

\* The table with column col replaced by the sequence vals.
SetColumn(t, col, vals) ==
    [t EXCEPT !.rows = [i \in 1..Len(t.rows) |->
                           [t.rows[i] EXCEPT ![col] = vals[i]]]]

-----------------------------------------------------------------------------
(* detect_gaps *)

\* data[time_col].diff(): missing at the first row.
time_diffs(times) ==
    [i \in 1..Len(times) |->
        IF i = 1 THEN NaN ELSE Sub(times[i], times[i - 1])]

\* Variant of is_gap: a difference equal to the threshold counts as a gap.
is_gap_inclusive(d, threshold_factor, median_diff2) ==
    d # NaN /\ 2 * d >= threshold_factor * median_diff2

\* time_diffs > gap_threshold, for gap_threshold = threshold_factor * median_diff
\* (median_diff2 is twice the median).
is_gap(d, threshold_factor, median_diff2) ==
    d # NaN /\ 2 * d > threshold_factor * median_diff2

detect_gaps(t, time_col, threshold_factor) ==
    IF Len_(t) < 2 THEN <<>>
    ELSE LET diffs == time_diffs(Column(t, time_col))
             median_diff2 == Median2(Tail(diffs))
         IN IF median_diff2 = NaN THEN <<>>   \* every comparison with NaN is false
            ELSE IF median_diff2 <= 0 THEN <<>>
            ELSE PositionsWhere(diffs,
                    LAMBDA d : is_gap(d, threshold_factor, median_diff2))

-----------------------------------------------------------------------------
(* detect_jumps *)

\* Resolution of the running sum of detect_jumps: cusum and the normalized
\* deviations are kept in units of 1/CusumScale, rounded toward zero.
CusumScale == 100

RECURSIVE Sum(_)
Sum(s) == IF s = <<>> THEN 0 ELSE Head(s) + Sum(Tail(s))

RECURSIVE IsqrtFrom(_, _)
IsqrtFrom(n, x) ==
    LET y == (x + n \div x) \div 2
    IN IF y >= x THEN x ELSE IsqrtFrom(n, y)

\* The integer square root (rounded down).
Isqrt(n) == IF n <= 0 THEN 0 ELSE IsqrtFrom(n, n)

\* (data[value_col].iloc[i] - rolling_mean.iloc[i-1]) / rolling_std.iloc[i-1]
\* in units of 1/CusumScale, or 0.0 when that std is undefined or <= 1e-6.
\* The trailing window of label i-1 holds positions i-w..i-1; with S its sum
\*   mean = S/w,  std = sqrt(Q/(w-1))/w  for  Q = sum of (w*x - S)^2  (ddof=1),
\* so the quotient is (w*x_i - S) * sqrt(w-1) / sqrt(Q).
normalized_dev(values, window_size, i) ==
    LET w == window_size
        win == Slice(values, i - w, i)
    IN IF Len(DropNaN(win)) < w \/ w < 2 THEN 0        \* std is NaN
       ELSE LET S == Sum(win)
                Q == Sum([j \in 1..w |-> (w * win[j] - S) * (w * win[j] - S)])
            IN IF ~(Q > ((w * w * (w - 1) * Unit * Unit) \div Micro) \div Micro) THEN 0
               ELSE IF At(values, i) = NaN THEN NaN
               ELSE LET D == w * At(values, i) - S
                        q == Isqrt((CusumScale * CusumScale * D * D * (w - 1)) \div Q)
                    IN IF D < 0 THEN -q ELSE q

RECURSIVE jumps_loop(_, _, _, _, _, _)
jumps_loop(values, window_size, threshold, i, cusum, jumps) ==
    IF i >= Len(values) THEN jumps
    ELSE LET c == Add(cusum, normalized_dev(values, window_size, i))
         IN IF c # NaN /\ Abs(c) > threshold * CusumScale
            THEN jumps_loop(values, window_size, threshold, i + 1, 0, Append(jumps, i))
            ELSE jumps_loop(values, window_size, threshold, i + 1, c, jumps)

detect_jumps(t, value_col, window_size, threshold) ==
    IF Len_(t) < window_size * 2 THEN <<>>
    ELSE jumps_loop(Column(t, value_col), window_size, threshold, window_size, 0, <<>>)

-----------------------------------------------------------------------------
(* detect_outliers *)

\* mad_scale_factor = 1.4826 = MadScaleNum / MadScaleDen.
MadScaleNum == 14826

MadScaleDen == 10000

\* 1e-6 as eps.num / eps.den quanta of a value cell: for cells of 1/Unit ...
Eps == [num |-> Unit, den |-> Micro]

\* ... and for cells of half a millionth.
FineEps == [num |-> 2, den |-> 1]

\* x/den quanta < 1e-6, for integers x >= 0 and den > 0.
BelowEps(x, den, eps) == x <= (den * eps.num - 1) \div eps.den

\* x/den quanta > k * 1e-6, for integers x >= 0, den > 0 and k >= 0.
AboveEps(x, den, k, eps) == x > (k * den * eps.num) \div eps.den

\* Variant of centered_window: the window starts at label i.
leading_window(values, window_size, i) ==
    Slice(values, i, i + window_size)

\* Variant of centered_window: the window ends at label i (center=False).
trailing_window(values, window_size, i) ==
    Slice(values, i + 1 - window_size, i + 1)

\* The window of values.rolling(window=window_size, center=True) at label i:
\* positions i+1+offset-w .. i+offset with offset = (w-1)//2, clipped.
centered_window(values, window_size, i) ==
    LET offset == (window_size - 1) \div 2
    IN Slice(values, i + 1 + offset - window_size, i + 1 + offset)

\* Twice the rolling median at label i; NaN unless the window holds
\* window_size observations (min_periods defaults to the window).
rolling_median2(values, window_size, i) ==
    LET win == centered_window(values, window_size, i)
    IN IF Len(DropNaN(win)) < window_size THEN NaN ELSE Median2(win)

\* Four times the rolling MAD at label i (median of |x - median(x)|).
rolling_mad4(values, window_size, i) ==
    LET win == centered_window(values, window_size, i)
    IN IF Len(DropNaN(win)) < window_size THEN NaN
       ELSE LET m2 == Median2(win)
            IN Median2([j \in 1..Len(win) |-> Abs(2 * win[j] - m2)])

\* Variant of zero_mad_is_inf: only the test against 1e-6.
zero_mad_is_inf_eps_only(dev2, threshold, eps) == AboveEps(dev2, 2, 1, eps)

\* The branch for a scaled MAD below 1e-6: z_score is inf (rather than 0.0)
\* when the deviation dev2/2 exceeds 1e-6 and exceeds threshold * 1e-6.
zero_mad_is_inf(dev2, threshold, eps) ==
    AboveEps(dev2, 2, 1, eps) /\ AboveEps(dev2, 2, threshold, eps)

\* The body of detect_outliers' loop for position i: z_score > threshold
\* (threshold >= 0).
is_outlier(values, window_size, threshold, i, eps) ==
    LET median2 == rolling_median2(values, window_size, i)
        mad4 == rolling_mad4(values, window_size, i)
    IN IF median2 = NaN \/ mad4 = NaN THEN FALSE
       ELSE LET dev2 == Abs(2 * At(values, i) - median2)
            IN IF BelowEps(MadScaleNum * mad4, 4 * MadScaleDen, eps)
               THEN \* z_score is inf or 0.0
                    zero_mad_is_inf(dev2, threshold, eps)
               ELSE \* z = (dev2/2) / (MadScaleNum*mad4 / (4*MadScaleDen))
                    2 * MadScaleDen * dev2 > threshold * MadScaleNum * mad4

\* detect_outliers on a table whose value cells are quanta with 1e-6 = eps.
detect_outliers_in(t, value_col, window_size, threshold, eps) ==
    IF Len_(t) < window_size THEN <<>>
    ELSE LET values == Column(t, value_col)
             all == [i \in 1..Len(values) |-> i - 1]
         IN SelectSeq(all, LAMBDA i : is_outlier(values, window_size, threshold, i, eps))

detect_outliers(t, value_col, window_size, threshold) ==
    detect_outliers_in(t, value_col, window_size, threshold, Eps)

-----------------------------------------------------------------------------
(* correct_jumps *)

\* x/2 as a cell (exact when x is even).
Half(x) == IF x = NaN THEN NaN ELSE x \div 2

\* Variant of add_offset: the flagged position itself keeps its value.
add_offset_after(values, jump_idx, local_offset) ==
    [i \in 1..Len(values) |->
        IF i - 1 > jump_idx THEN Add(values[i], local_offset) ELSE values[i]]

\* result_df.loc[result_df.index >= jump_idx, value_col] += local_offset
add_offset(values, jump_idx, local_offset) ==
    [i \in 1..Len(values) |->
        IF i - 1 >= jump_idx THEN Add(values[i], local_offset) ELSE values[i]]

\* Variant of lacks_margin: a position whose after-window just fits is kept.
lacks_margin_beyond(jump_idx, n, window_size) ==
    jump_idx < window_size \/ jump_idx > n - window_size

\* jump_idx < window_size or jump_idx >= n - window_size
lacks_margin(jump_idx, n, window_size) ==
    jump_idx < window_size \/ jump_idx >= n - window_size

RECURSIVE correct_jumps_loop(_, _, _)
correct_jumps_loop(values, sorted_jump_indices, window_size) ==
    IF sorted_jump_indices = <<>> THEN values
    ELSE LET jump_idx == Head(sorted_jump_indices)
             rest == Tail(sorted_jump_indices)
             n == Len(values)
         IN IF lacks_margin(jump_idx, n, window_size)
            THEN correct_jumps_loop(values, rest, window_size)
            ELSE LET median_before2 == Median2(Slice(values, jump_idx - window_size, jump_idx))
                     median_after2 == Median2(Slice(values, jump_idx, jump_idx + window_size))
                 IN IF median_before2 = NaN \/ median_after2 = NaN
                    THEN correct_jumps_loop(values, rest, window_size)
                    ELSE LET local_offset == Half(median_before2 - median_after2)
                         IN correct_jumps_loop(add_offset(values, jump_idx, local_offset),
                                               rest, window_size)

\* Variant of sort_jump_indices: the findings in the order given.
jump_indices_as_given(jump_idxs) == jump_idxs

\* sorted_jump_indices = sorted(jump_indices)
sort_jump_indices(jump_idxs) == SortAsc(jump_idxs)

correct_jumps(t, jump_idxs, value_col, window_size) ==
    IF jump_idxs = <<>> THEN t
    ELSE SetColumn(t, value_col,
            correct_jumps_loop(Column(t, value_col), sort_jump_indices(jump_idxs),
                               window_size))

-----------------------------------------------------------------------------
(* Series.interpolate(method='linear', limit_direction='both') *)

\* The valid 0-based positions of values below / above position i.
ValidBefore(values, i) == {a \in 0..(i - 1) : At(values, a) # NaN}

ValidAfter(values, i) == {b \in (i + 1)..(Len(values) - 1) : At(values, b) # NaN}

SetMax(S) == CHOOSE x \in S : \A y \in S : y <= x

SetMin(S) == CHOOSE x \in S : \A y \in S : x <= y

\* Missing cells between two valid cells lie on the line through them, by row
\* position; missing cells before the first / after the last valid cell take
\* its value; a column with no valid cell stays missing.
interpolate_linear(values) ==
    [i \in 1..Len(values) |->
        IF values[i] # NaN THEN values[i]
        ELSE LET before == ValidBefore(values, i - 1)
                 after == ValidAfter(values, i - 1)
             IN IF before = {} /\ after = {} THEN NaN
                ELSE IF before = {} THEN At(values, SetMin(after))
                ELSE IF after = {} THEN At(values, SetMax(before))
                ELSE LET a == SetMax(before)
                         b == SetMin(after)
                     IN At(values, a)
                        + ((At(values, b) - At(values, a)) * (i - 1 - a)) \div (b - a)]

-----------------------------------------------------------------------------
(* correct_outliers *)

\* Variant of SetAt: only the smallest of the selected positions is assigned.
SetAt_first(values, idxs, v) ==
    [i \in 1..Len(values) |->
        IF (i - 1) \in idxs /\ (\A j \in idxs : i - 1 <= j) THEN v ELSE values[i]]

\* values with the cells at the 0-based positions idxs replaced by v.
SetAt(values, idxs, v) ==
    [i \in 1..Len(values) |-> IF (i - 1) \in idxs THEN v ELSE values[i]]

\* pd.Series(vals).median() / .mean() as a cell.
replacement_value(vals, method) ==
    LET v == DropNaN(vals)
    IN IF v = <<>> THEN NaN
       ELSE IF method = "median" THEN Half(Median2(v))
       ELSE Sum(v) \div Len(v)

\* Variant of is_valid_neighbour: only the item itself is left out.
is_other_position(idx, outlier_idx, outlier_indices_set) ==
    idx # outlier_idx

\* idx != outlier_idx and idx not in outlier_indices_set
is_valid_neighbour(idx, outlier_idx, outlier_indices_set) ==
    idx # outlier_idx /\ idx \notin outlier_indices_set

\* Variant of window_end: the window holds exactly window_size positions.
window_end_width(n, outlier_idx, window_size) ==
    Min(n, outlier_idx - window_size \div 2 + window_size)

\* end_idx = min(n, outlier_idx + window_size // 2 + 1)
window_end(n, outlier_idx, window_size) ==
    Min(n, outlier_idx + window_size \div 2 + 1)

RECURSIVE correct_outliers_loop(_, _, _, _, _)
correct_outliers_loop(values, idxs, outlier_indices_set, window_size, method) ==
    IF idxs = <<>> THEN values
    ELSE LET outlier_idx == Head(idxs)
             n == Len(values)
             start_idx == Max(0, outlier_idx - window_size \div 2)
             end_idx == window_end(n, outlier_idx, window_size)
             window_indices == [k \in 1..Max(end_idx - start_idx, 0) |-> start_idx + k - 1]
             valid_indices_in_window ==
                 SelectSeq(window_indices,
                           LAMBDA idx : is_valid_neighbour(idx, outlier_idx,
                                                           outlier_indices_set))
             surrounding_values ==
                 [k \in 1..Len(valid_indices_in_window) |->
                     At(values, valid_indices_in_window[k])]
             replacement == replacement_value(surrounding_values, method)
         IN IF valid_indices_in_window = <<>> \/ replacement = NaN
            THEN correct_outliers_loop(values, Tail(idxs), outlier_indices_set,
                                       window_size, method)
            ELSE correct_outliers_loop(SetAt(values, {outlier_idx}, replacement),
                                       Tail(idxs), outlier_indices_set, window_size, method)

correct_outliers(t, outlier_idxs, value_col, window_size, method) ==
    IF outlier_idxs = <<>> THEN t
    ELSE LET values == Column(t, value_col)
         IN IF method = "interpolate"
            THEN SetColumn(t, value_col,
                           interpolate_linear(SetAt(values, Range(outlier_idxs), NaN)))
            ELSE IF method = "remove"
            THEN SetColumn(t, value_col, SetAt(values, Range(outlier_idxs), NaN))
            ELSE IF method \in {"median", "mean"}
            THEN SetColumn(t, value_col,
                           correct_outliers_loop(values, outlier_idxs,
                                                 Range(outlier_idxs), window_size, method))
            ELSE t

-----------------------------------------------------------------------------
(* DataFrame.sort_values(by=time_col).reset_index(drop=True) *)

\* Ascending by the time cell, missing times last.  Rows with equal times
\* keep their order (what the default sort does on tables this small).
TimeBefore(r1, r2, time_col) ==
    r1[time_col] # NaN /\ (r2[time_col] = NaN \/ r1[time_col] < r2[time_col])

RECURSIVE InsertRow(_, _, _)
InsertRow(r, rows, time_col) ==
    IF rows = <<>> THEN <<r>>
    ELSE IF TimeBefore(r, Head(rows), time_col) THEN <<r>> \o rows
    ELSE <<Head(rows)>> \o InsertRow(r, Tail(rows), time_col)

RECURSIVE SortRows(_, _)
SortRows(rows, time_col) ==
    IF rows = <<>> THEN <<>>
    ELSE InsertRow(rows[Len(rows)], SortRows(SubSeq(rows, 1, Len(rows) - 1), time_col),
                   time_col)

sort_values(t, time_col) == [t EXCEPT !.rows = SortRows(t.rows, time_col)]

-----------------------------------------------------------------------------
(* correct_gaps *)

\* value_cols=None.
AUTO == <<"<None>">>

\* Variant of round: halves go up.
round_half_up(a, b) ==
    LET q == a \div b
        r == a % b
    IN IF 2 * r < b THEN q ELSE q + 1

\* Python's round(a / b) for a >= 0, b > 0: to nearest, halves to even.
round(a, b) ==
    LET q == a \div b
        r == a % b
    IN IF 2 * r < b THEN q
       ELSE IF 2 * r > b THEN q + 1
       ELSE IF q % 2 = 0 THEN q ELSE q + 1

\* Variant of linspace: the stop value is left out (endpoint=False).
linspace_open(start, stop, num) ==
    [k \in 1..num |-> start + ((k - 1) * (stop - start)) \div num]

\* np.linspace(start, stop, num=num, dtype=<int64>): num evenly spaced
\* samples from start to stop inclusive, rounded down to whole numbers.
linspace(start, stop, num) ==
    [k \in 1..num |->
        IF num = 1 THEN start
        ELSE start + ((k - 1) * (stop - start)) \div (num - 1)]

\* Variant of numeric_cols_except: the time column is not left out.
numeric_cols_all(t, time_col) ==
    SelectSeq(t.cols, LAMBDA c : t.dtype[c] = "num")

\* result_df.select_dtypes(include=np.number).columns without time_col.
numeric_cols_except(t, time_col) ==
    SelectSeq(t.cols, LAMBDA c : t.dtype[c] = "num" /\ c # time_col)

\* Variant of SortDesc: ascending order.
SortDesc_ascending(s) == SortAsc(s)

RECURSIVE SortDesc(_)
SortDesc(s) ==
    IF s = <<>> THEN <<>>
    ELSE LET a == SortAsc(s) IN <<a[Len(a)]>> \o SortDesc(SubSeq(a, 1, Len(a) - 1))

RECURSIVE correct_gaps_loop(_, _, _, _)
correct_gaps_loop(rows, idxs, processed_gap_indices, time_col) ==
    IF idxs = <<>> THEN rows
    ELSE LET gap_idx == Head(idxs)
             rest == Tail(idxs)
             skip == correct_gaps_loop(rows, rest, processed_gap_indices, time_col)
         IN IF gap_idx \in processed_gap_indices \/ gap_idx = 0 THEN skip
            ELSE LET idx_before == gap_idx - 1
                     idx_after == gap_idx
                     time_before == At(rows, idx_before)[time_col]
                     time_after == At(rows, idx_after)[time_col]
                     has_step == idx_before > 0 \/ Len(rows) > idx_after + 1
                     normal_step ==
                         IF idx_before > 0
                         THEN time_before - At(rows, idx_before - 1)[time_col]
                         ELSE At(rows, idx_after + 1)[time_col] - time_after
                 IN IF ~has_step THEN skip
                    ELSE IF normal_step <= 0 THEN skip
                    ELSE LET num_missing_points ==
                                 round(time_after - time_before, normal_step) - 1
                         IN IF num_missing_points <= 0 THEN skip
                            ELSE LET new_times ==
                                         linspace(time_before + normal_step,
                                                  time_after - normal_step,
                                                  num_missing_points)
                                     inserted ==
                                         [k \in 1..Len(new_times) |->
                                             [c \in DOMAIN rows[1] |->
                                                 IF c = time_col THEN new_times[k]
                                                 ELSE NaN]]
                                 IN correct_gaps_loop(
                                        Slice(rows, 0, gap_idx) \o inserted
                                            \o Slice(rows, gap_idx, Len(rows)),
                                        rest, processed_gap_indices \cup {gap_idx},
                                        time_col)

RECURSIVE InterpolateCols(_, _)
InterpolateCols(t, value_cols) ==
    IF value_cols = <<>> THEN t
    ELSE InterpolateCols(
            SetColumn(t, Head(value_cols), interpolate_linear(Column(t, Head(value_cols)))),
            Tail(value_cols))

\* method is "time" or "linear": the index is the RangeIndex, never a
\* DatetimeIndex, so "time" takes the fallback to 'linear'.
fill_gaps(t, gap_idxs, time_col, value_cols) ==
    LET vcols == IF value_cols = AUTO THEN numeric_cols_except(t, time_col)
                 ELSE value_cols
    IN IF vcols = <<>> THEN t
       ELSE LET sorted == sort_values(t, time_col)
                filled == [sorted EXCEPT !.rows =
                              correct_gaps_loop(sorted.rows, SortDesc(gap_idxs),
                                                {}, time_col)]
            IN InterpolateCols(filled, vcols)

\* Variant of correct_gaps: the table is sorted by time before the findings
\* are looked at.
correct_gaps_sort_first(t, gap_idxs, time_col, value_cols, method) ==
    IF gap_idxs = <<>>
    THEN (IF HasColumn(t, time_col) THEN sort_values(t, time_col) ELSE t)
    ELSE fill_gaps(t, gap_idxs, time_col, value_cols)

correct_gaps(t, gap_idxs, time_col, value_cols, method) ==
    IF gap_idxs = <<>> THEN t
    ELSE fill_gaps(t, gap_idxs, time_col, value_cols)

-----------------------------------------------------------------------------
(* process_data: configuration and column resolution *)

\* The default time column name.
TimeCol == "Time (Seconds)"

\* value_col: None.
None == "<None>"

default_config ==
    [window_size |-> 5, threshold |-> 3, gap_threshold_factor |-> 3,
     gap_method |-> "time", outlier_method |-> "median", jump_method |-> "offset",
     time_col |-> TimeCol, value_col |-> None]

\* pd.to_datetime(col), then (col - Timestamp("1970-01-01")) // Timedelta('1s'):
\* a datetime cell holds milliseconds since the epoch, the result whole seconds.
to_unix_seconds(t, time_col) ==
    [SetColumn(t, time_col, [i \in 1..Len_(t) |-> Column(t, time_col)[i] \div 1000])
        EXCEPT !.dtype = [t.dtype EXCEPT ![time_col] = "num"]]

\* Lines 519-530: "ok" with the converted copy, or the ValueError raised.
resolve_time_col(t, cfg) ==
    IF ~HasColumn(t, cfg.time_col)
    THEN [ok |-> FALSE, error |-> "time column not found"]
    ELSE IF t.dtype[cfg.time_col] = "num" THEN [ok |-> TRUE, table |-> t]
    ELSE IF t.dtype[cfg.time_col] = "datetime"
    THEN [ok |-> TRUE, table |-> to_unix_seconds(t, cfg.time_col)]
    ELSE [ok |-> FALSE, error |-> "time column not numeric and not convertible"]

\* Variant of resolve_value_col: a configured column that is not in the
\* table is replaced by the first numeric column.
resolve_value_col_fallback(t, cfg) ==
    IF cfg.value_col = None \/ ~HasColumn(t, cfg.value_col)
    THEN LET potential_value_cols == numeric_cols_except(t, cfg.time_col)
         IN IF potential_value_cols = <<>>
            THEN [ok |-> FALSE, error |-> "no numeric value columns"]
            ELSE [ok |-> TRUE, value_col |-> potential_value_cols[1]]
    ELSE IF t.dtype[cfg.value_col] # "num"
    THEN [ok |-> FALSE, error |-> "value column not numeric"]
    ELSE [ok |-> TRUE, value_col |-> cfg.value_col]

\* Lines 531-550: the value column of this call, or the ValueError raised.
resolve_value_col(t, cfg) ==
    IF cfg.value_col = None
    THEN LET potential_value_cols == numeric_cols_except(t, cfg.time_col)
         IN IF potential_value_cols = <<>>
            THEN [ok |-> FALSE, error |-> "no numeric value columns"]
            ELSE [ok |-> TRUE, value_col |-> potential_value_cols[1]]
    ELSE IF ~HasColumn(t, cfg.value_col)
    THEN [ok |-> FALSE, error |-> "value column not found"]
    ELSE IF t.dtype[cfg.value_col] # "num"
    THEN [ok |-> FALSE, error |-> "value column not numeric"]
    ELSE [ok |-> TRUE, value_col |-> cfg.value_col]

NoTable == [cols |-> <<>>, dtype |-> <<>>, rows |-> <<>>]

NoResult == [kind |-> "none"]

\* No batch_process run.
NoBatch == [pc |-> "none"]

Entry(stage, read, out) == [stage |-> stage, read |-> read, out |-> out]

-----------------------------------------------------------------------------
(* process_data: the steps of one call *)

\* Lines 512-550: overlay defaults (config is kept merged), copy, resolve the
\* columns.  A failure raises before anything else runs.
Validate ==
    /\ pc = "start"
    /\ LET rt == resolve_time_col(data, config)
       IN IF ~rt.ok
          THEN /\ result' = [kind |-> "error", error |-> rt.error]
               /\ pc' = "raised"
               /\ UNCHANGED <<processed_data, config>>
          ELSE LET rv == resolve_value_col(rt.table, config)
               IN IF ~rv.ok
                  THEN /\ result' = [kind |-> "error", error |-> rv.error]
                       /\ pc' = "raised"
                       /\ UNCHANGED <<processed_data, config>>
                  ELSE /\ processed_data' = rt.table
                       /\ config' = [config EXCEPT !.value_col = rv.value_col]
                       /\ pc' = "sort"
                       /\ UNCHANGED result
    /\ UNCHANGED <<data, gap_indices, outlier_indices, jump_indices, log, call>>
    /\ UNCHANGED batch

\* Line 559.
SortByTime ==
    /\ pc = "sort"
    /\ processed_data' = sort_values(processed_data, config.time_col)
    /\ pc' = "detect_gaps"
    /\ UNCHANGED <<data, config, gap_indices, outlier_indices, jump_indices,
                   result, log, call>>
    /\ UNCHANGED batch

\* Lines 562-565.
DetectGaps ==
    /\ pc = "detect_gaps"
    /\ LET found == detect_gaps(processed_data, config.time_col,
                                config.gap_threshold_factor)
       IN /\ gap_indices' = found
          /\ log' = Append(log, Entry("detect_gaps", processed_data, found))
          /\ pc' = IF found # <<>> THEN "correct_gaps" ELSE "detect_outliers"
    /\ UNCHANGED <<data, config, processed_data, outlier_indices, jump_indices,
                   result, call>>
    /\ UNCHANGED batch

\* Lines 566-573: correct, then sort again.
CorrectGaps ==
    /\ pc = "correct_gaps"
    /\ LET corrected == sort_values(
                            correct_gaps(processed_data, gap_indices, config.time_col,
                                         <<config.value_col>>, config.gap_method),
                            config.time_col)
       IN /\ processed_data' = corrected
          /\ log' = Append(log, Entry("correct_gaps", processed_data, corrected))
    /\ pc' = "detect_outliers"
    /\ UNCHANGED <<data, config, gap_indices, outlier_indices, jump_indices,
                   result, call>>
    /\ UNCHANGED batch

\* Variant of DetectOutliers: the detector is handed the caller's table.
DetectOutliers_input ==
    /\ pc = "detect_outliers"
    /\ LET found == detect_outliers(data, config.value_col,
                                    config.window_size, config.threshold)
       IN /\ outlier_indices' = found
          /\ log' = Append(log, Entry("detect_outliers", data, found))
          /\ pc' = IF found # <<>> THEN "correct_outliers" ELSE "detect_jumps"
    /\ UNCHANGED <<data, config, processed_data, gap_indices, jump_indices,
                   result, call>>
    /\ UNCHANGED batch

\* Lines 578-584.
DetectOutliers ==
    /\ pc = "detect_outliers"
    /\ LET found == detect_outliers(processed_data, config.value_col,
                                    config.window_size, config.threshold)
       IN /\ outlier_indices' = found
          /\ log' = Append(log, Entry("detect_outliers", processed_data, found))
          /\ pc' = IF found # <<>> THEN "correct_outliers" ELSE "detect_jumps"
    /\ UNCHANGED <<data, config, processed_data, gap_indices, jump_indices,
                   result, call>>
    /\ UNCHANGED batch

\* Lines 585-591.
CorrectOutliers ==
    /\ pc = "correct_outliers"
    /\ LET corrected == correct_outliers(processed_data, outlier_indices,
                                         config.value_col, config.window_size,
                                         config.outlier_method)
       IN /\ processed_data' = corrected
          /\ log' = Append(log, Entry("correct_outliers", processed_data, corrected))
    /\ pc' = "detect_jumps"
    /\ UNCHANGED <<data, config, gap_indices, outlier_indices, jump_indices,
                   result, call>>
    /\ UNCHANGED batch

\* Lines 596-602.
DetectJumps ==
    /\ pc = "detect_jumps"
    /\ LET found == detect_jumps(processed_data, config.value_col,
                                 config.window_size, config.threshold)
       IN /\ jump_indices' = found
          /\ log' = Append(log, Entry("detect_jumps", processed_data, found))
          /\ pc' = IF found # <<>> THEN "correct_jumps" ELSE "return"
    /\ UNCHANGED <<data, config, processed_data, gap_indices, outlier_indices,
                   result, call>>
    /\ UNCHANGED batch

\* Lines 603-608.
CorrectJumps ==
    /\ pc = "correct_jumps"
    /\ LET corrected == correct_jumps(processed_data, jump_indices,
                                      config.value_col, config.window_size)
       IN /\ processed_data' = corrected
          /\ log' = Append(log, Entry("correct_jumps", processed_data, corrected))
    /\ pc' = "return"
    /\ UNCHANGED <<data, config, gap_indices, outlier_indices, jump_indices,
                   result, call>>
    /\ UNCHANGED batch

\* Variant of Return: the caller's table is handed back, not the working copy.
Return_input ==
    /\ pc = "return"
    /\ result' = [kind |-> "table", table |-> data]
    /\ pc' = "done"
    /\ UNCHANGED <<data, config, processed_data, gap_indices, outlier_indices,
                   jump_indices, log, call>>
    /\ UNCHANGED batch

\* Line 613.
Return ==
    /\ pc = "return"
    /\ result' = [kind |-> "table", table |-> processed_data]
    /\ pc' = "done"
    /\ UNCHANGED <<data, config, processed_data, gap_indices, outlier_indices,
                   jump_indices, log, call>>
    /\ UNCHANGED batch

\* The caller runs process_data again on the table it got back, with the
\* configuration it passed the first time.
Rerun ==
    /\ pc = "done"
    /\ call.run = 1
    /\ data' = result.table
    /\ config' = call.config
    /\ call' = [call EXCEPT !.run = 2, !.input = result.table,
                             !.first_input = data, !.first_result = result.table]
    /\ processed_data' = NoTable
    /\ gap_indices' = <<>>
    /\ outlier_indices' = <<>>
    /\ jump_indices' = <<>>
    /\ result' = NoResult
    /\ log' = <<>>
    /\ pc' = "start"
    /\ UNCHANGED batch

-----------------------------------------------------------------------------
(* The tables and configurations process_data is called with *)

\* Longest input table.
MaxRows == 5

\* Differences between consecutive timestamps of an input.
TimeSteps == {0, 1, 2, 5}

\* Values of an input, in whole units.
Values == {0, 1, 10}

\* The table with the given column order, kinds and column contents.
TableOf(cols, dtype, columns) ==
    [cols |-> cols, dtype |-> dtype,
     rows |-> [i \in 1..Len(columns[cols[1]]) |->
                 [c \in Range(cols) |-> columns[c][i]]]]

AllNum(cols) == [c \in Range(cols) |-> "num"]

\* A time column and two value columns; Y2 is a steady second sensor.
SensorTable(times, values) ==
    TableOf(<<TimeCol, "Y1", "Y2">>, AllNum(<<TimeCol, "Y1", "Y2">>),
            [c \in {TimeCol, "Y1", "Y2"} |->
                IF c = TimeCol THEN times
                ELSE IF c = "Y1" THEN values
                ELSE [i \in 1..Len(times) |-> 7 * Unit]])

\* The timestamps starting at 0 with the given consecutive differences.
RECURSIVE TimesFrom(_, _)
TimesFrom(t0, steps) ==
    IF steps = <<>> THEN <<t0>>
    ELSE <<t0>> \o TimesFrom(t0 + Head(steps), Tail(steps))

Reverse(s) == [i \in 1..Len(s) |-> s[Len(s) + 1 - i]]

Ramp(n) == [i \in 1..n |-> (i - 1) * Unit]

Spike(n) == [i \in 1..n |-> IF i = 2 THEN 10 * Unit ELSE Unit]

StepSeqs == UNION {[1..k -> TimeSteps] : k \in 0..(MaxRows - 1)}

\* Irregular timestamps in time order, under a ramp of values.
SortedGapTables == {SensorTable(TimesFrom(0, d), Ramp(Len(d) + 1)) : d \in StepSeqs}

\* The same with the rows in reverse order.
ReversedGapTables ==
    {SensorTable(Reverse(TimesFrom(0, d)), Ramp(Len(d) + 1)) : d \in StepSeqs}

\* Irregular timestamps in time order, under a spike in the values.
SpikeGapTables == {SensorTable(TimesFrom(0, d), Spike(Len(d) + 1)) : d \in StepSeqs}

GapTables == SortedGapTables \cup ReversedGapTables

\* Steps that are not whole multiples of one another.
WideSteps == {2, 3, 7, 8}

\* Timestamps in time order whose gaps are not whole multiples of the step
\* before them, under a ramp of values and under a spike.
WideGapTables ==
    UNION {{SensorTable(TimesFrom(0, d), vs) :
                d \in [1..k -> WideSteps], vs \in {Ramp(k + 1), Spike(k + 1)}} :
              k \in 2..3}

\* Values of an input in quanta of half a millionth.
FineValues == {0, 2, 3, 7}

\* Regular timestamps under every sequence of values a few millionths apart.
FineValueTables ==
    UNION {{SensorTable([i \in 1..n |-> i - 1], [i \in 1..n |-> vs[i]]) :
                vs \in [1..n -> FineValues]} : n \in 0..MaxRows}

\* Regular timestamps under every value sequence.
ValueTables ==
    UNION {{SensorTable([i \in 1..n |-> i - 1], [i \in 1..n |-> vs[i] * Unit]) :
                vs \in [1..n -> Values]} : n \in 0..MaxRows}

Config(w, thr, f, gap_method, outlier_method, time_col, value_col) ==
    [default_config EXCEPT !.window_size = w, !.threshold = thr,
                           !.gap_threshold_factor = f, !.gap_method = gap_method,
                           !.outlier_method = outlier_method,
                           !.time_col = time_col, !.value_col = value_col]

DataConfigs ==
    {Config(2, 1, 2, "time", "median", TimeCol, None),
     Config(3, 1, 1, "linear", "mean", TimeCol, "Y1"),
     Config(3, 3, 2, "time", "remove", TimeCol, None),
     Config(3, 1, 2, "time", "interpolate", TimeCol, "Y1"),
     Config(2, 3, 3, "time", "zscore", TimeCol, None),
     Config(2, 1, 2, "time", "median", TimeCol, TimeCol)}

GapConfigs ==
    {Config(2, 1, 2, "time", "median", TimeCol, None),
     Config(3, 1, 1, "linear", "mean", TimeCol, "Y1"),
     Config(3, 3, 3, "time", "remove", TimeCol, None)}

\* Tables of three rows that differ in their columns: which exist, in which
\* order, of which kind.  A datetime cell is in milliseconds, a str cell is
\* an opaque text.
ShapeColumns ==
    [c \in {TimeCol, "Y1", "Y2", "Label"} |->
        IF c = "Y1" THEN <<Unit, 10 * Unit, Unit>>
        ELSE IF c = "Y2" THEN <<3 * Unit, 2 * Unit, Unit>>
        ELSE IF c = "Label" THEN <<1, 2, 3>>
        ELSE <<2, 0, 1>>]

Shape(cols, dtype) ==
    TableOf(cols, dtype,
            [c \in Range(cols) |->
                IF c = TimeCol /\ dtype[c] = "datetime" THEN <<2500, 999, 1000>>
                ELSE ShapeColumns[c]])

ShapeTables ==
    {Shape(<<TimeCol, "Y1">>, AllNum(<<TimeCol, "Y1">>)),
     Shape(<<TimeCol, "Y2", "Y1">>, AllNum(<<TimeCol, "Y2", "Y1">>)),
     Shape(<<"Y1", "Y2">>, AllNum(<<"Y1", "Y2">>)),
     Shape(<<TimeCol>>, AllNum(<<TimeCol>>)),
     Shape(<<"Label", TimeCol, "Y1">>,
           [c \in {"Label", TimeCol, "Y1"} |-> IF c = "Label" THEN "str" ELSE "num"]),
     Shape(<<TimeCol, "Label">>,
           [c \in {TimeCol, "Label"} |-> IF c = "Label" THEN "str" ELSE "num"]),
     Shape(<<TimeCol, "Y1">>,
           [c \in {TimeCol, "Y1"} |-> IF c = TimeCol THEN "datetime" ELSE "num"]),
     Shape(<<TimeCol, "Y1">>,
           [c \in {TimeCol, "Y1"} |-> IF c = TimeCol THEN "str" ELSE "num"])}

ShapeConfigs ==
    {Config(3, 1, 2, "time", "median", tc, vc) :
        tc \in {TimeCol, "Y2"}, vc \in {None, "Y1", "Y2", "Label", TimeCol}}

-----------------------------------------------------------------------------
(* Spec: calls of process_data *)

Init ==
    /\ \/ data \in ValueTables /\ config \in DataConfigs
       \/ data \in GapTables \cup SpikeGapTables /\ config \in GapConfigs
       \/ data \in ShapeTables /\ config \in ShapeConfigs
    /\ pc = "start"
    /\ processed_data = NoTable
    /\ gap_indices = <<>>
    /\ outlier_indices = <<>>
    /\ jump_indices = <<>>
    /\ result = NoResult
    /\ log = <<>>
    /\ call = [fn |-> "process_data", run |-> 1, config |-> config, input |-> data,
               first_input |-> NoTable, first_result |-> NoTable]
    /\ batch = NoBatch

Next ==
    \/ Validate
    \/ SortByTime
    \/ DetectGaps
    \/ CorrectGaps
    \/ DetectOutliers
    \/ CorrectOutliers
    \/ DetectJumps
    \/ CorrectJumps
    \/ Return
    \/ Rerun

Spec == Init /\ [][Next]_vars

-----------------------------------------------------------------------------
(* SpecFn: direct calls of one detector or corrector *)

\* Longest finding set a corrector is handed directly.
MaxFindings == 2

\* The finding sets handed to a corrector for a table of n rows: any list of
\* row positions, in any order, repeats included.
IndexLists(n) == UNION {[1..k -> 0..(n - 1)] : k \in 0..MaxFindings}

\* The tables of T with one cell of Y1 missing.
OneMissing(T) ==
    UNION {{SetColumn(t, "Y1", SetAt(Column(t, "Y1"), {i}, NaN)) :
                i \in 0..(Len_(t) - 1)} : t \in T}

\* Regular timestamps, every value on one of two levels.
LevelTables ==
    UNION {{SensorTable([i \in 1..n |-> i - 1], [i \in 1..n |-> vs[i] * Unit]) :
                vs \in [1..n -> {1, 10}]} : n \in 0..MaxRows}

\* Rows of a table long enough for two correctable jump positions whose
\* windows of two rows overlap.
LongRows == MaxRows + 1

\* Regular timestamps, LongRows values on one of two levels.
LongLevelTables ==
    {SensorTable([i \in 1..LongRows |-> i - 1], [i \in 1..LongRows |-> vs[i] * Unit]) :
        vs \in [1..LongRows -> {1, 10}]}

\* Scenario A: 10 evenly spaced rows of value 10, row k set to 1000.
ScenarioA(k) ==
    SensorTable([i \in 1..10 |-> i - 1],
                [i \in 1..10 |-> IF i - 1 = k THEN 1000 * Unit ELSE 10 * Unit])

\* Scenario B: timestamps 0,1,2,3,10,11, with the values on either side of
\* the gap (a, b) chosen so that the filled values are whole quanta.
ScenarioB(a, b) == SensorTable(<<0, 1, 2, 3, 10, 11>>, <<Unit, Unit, 0, a, b, 3 * Unit>>)

ScenarioBLevels == {0, 7 * Unit, 21 * Unit}

\* Scenario C: 40 rows, flat at 0 for rows 0-19 and at 5 for rows 20-39.
ScenarioC ==
    SensorTable([i \in 1..40 |-> i - 1],
                [i \in 1..40 |-> IF i <= 20 THEN 0 ELSE 5 * Unit])

Call(fn, indices, w, thr, method, time_col, value_cols) ==
    [fn |-> fn, indices |-> indices, window_size |-> w, threshold |-> thr,
     method |-> method, time_col |-> time_col, value_cols |-> value_cols,
     detected |-> FALSE, family |-> call.family]

Indices(found) == [kind |-> "indices", indices |-> found]

Table(t) == [kind |-> "table", table |-> t]

\* A direct call leaves the pipeline's variables alone.
Direct == UNCHANGED <<config, processed_data, gap_indices, outlier_indices,
                      jump_indices, log>>

\* The tables a detector or corrector is called with directly, by family.
DirectTables(family) ==
    CASE family = "gaps" -> SortedGapTables
      [] family = "gaps reversed" -> ReversedGapTables
      [] family = "gaps wide" -> WideGapTables
      [] family = "shapes" -> ShapeTables
      [] family = "values" -> ValueTables
      [] family = "values missing" -> OneMissing(ValueTables)
      [] family = "values fine" -> FineValueTables
      [] family = "levels" -> LevelTables
      [] family = "levels missing" -> OneMissing(LevelTables)
      [] family = "levels long" -> LongLevelTables
      [] family = "scenario A" -> {ScenarioA(k) : k \in 0..9}
      [] family = "scenario B" -> {ScenarioB(a, b) : a, b \in ScenarioBLevels}
      [] family = "scenario C" -> {ScenarioC}

\* 1e-6 in the quanta of the value cells of a family's tables.
CellEps(family) == IF family = "values fine" THEN FineEps ELSE Eps

Families ==
    {"gaps", "gaps reversed", "gaps wide", "shapes", "values", "values missing",
     "values fine", "levels", "levels missing", "levels long", "scenario A", "scenario B", "scenario C"}

CallDetectGaps ==
    /\ pc = "idle"
    /\ call.family \in {"gaps", "gaps reversed", "gaps wide", "scenario B"}
    /\ \E f \in {1, 2, 3} :
          /\ call' = Call("detect_gaps", <<>>, 0, f, "time", TimeCol, <<"Y1">>)
          /\ result' = Indices(detect_gaps(data, TimeCol, f))
    /\ pc' = "detected"
    /\ UNCHANGED data
    /\ Direct
    /\ UNCHANGED batch

CallDetectOutliers ==
    /\ pc = "idle"
    /\ \E a \in IF call.family = "scenario A" THEN {<<5, 3>>}
                ELSE IF call.family \in {"values", "values missing", "values fine"}
                THEN {2, 3} \X {1, 3}
                ELSE {} :
          /\ call' = Call("detect_outliers", <<>>, a[1], a[2], "median", TimeCol, <<"Y1">>)
          /\ result' = Indices(detect_outliers_in(data, "Y1", a[1], a[2], CellEps(call.family)))
    /\ pc' = "detected"
    /\ UNCHANGED data
    /\ Direct
    /\ UNCHANGED batch

CallDetectJumps ==
    /\ pc = "idle"
    /\ \E a \in IF call.family = "scenario C" THEN {<<5, 3>>}
                ELSE IF call.family \in {"values", "values missing"}
                THEN {1, 2} \X {1, 3}
                ELSE {} :
          /\ call' = Call("detect_jumps", <<>>, a[1], a[2], "offset", TimeCol, <<"Y1">>)
          /\ result' = Indices(detect_jumps(data, "Y1", a[1], a[2]))
    /\ pc' = "detected"
    /\ UNCHANGED data
    /\ Direct
    /\ UNCHANGED batch

\* The corrector of the detector that just returned, called with its
\* findings on the same table with the same arguments.
CorrectDetected ==
    /\ pc = "detected"
    /\ call' = [call EXCEPT !.indices = result.indices, !.detected = TRUE,
                    !.fn = IF call.fn = "detect_gaps" THEN "correct_gaps"
                           ELSE IF call.fn = "detect_outliers" THEN "correct_outliers"
                           ELSE "correct_jumps"]
    /\ result' =
          Table(IF call.fn = "detect_gaps"
                THEN correct_gaps(data, result.indices, call.time_col,
                                  call.value_cols, call.method)
                ELSE IF call.fn = "detect_outliers"
                THEN correct_outliers(data, result.indices, call.value_cols[1],
                                      call.window_size, call.method)
                ELSE correct_jumps(data, result.indices, call.value_cols[1],
                                   call.window_size))
    /\ pc' = "returned"
    /\ UNCHANGED data
    /\ Direct
    /\ UNCHANGED batch

\* Any table with an empty finding set and any arguments; a time-sorted
\* table of fewer than MaxRows rows with any finding set.
CallCorrectGaps ==
    /\ pc = "idle"
    /\ \E a \in (IF call.family \in {"gaps", "gaps reversed", "shapes"}
                 THEN {<<>>} \X {"time", "linear"} \X {AUTO, <<"Y1">>, <<"Y3">>}
                          \X {TimeCol, "t"}
                 ELSE {})
                \cup (IF call.family \in {"gaps", "gaps wide"} /\ Len_(data) < MaxRows
                      THEN (IndexLists(Len_(data)) \ {<<>>})
                               \X {<<"time", <<"Y1">>, TimeCol>>,
                                   <<"linear", AUTO, TimeCol>>}
                      ELSE {}) :
          LET flat == IF Len(a) = 4 THEN a ELSE <<a[1], a[2][1], a[2][2], a[2][3]>>
          IN /\ call' = Call("correct_gaps", flat[1], 0, 0, flat[2], flat[4], flat[3])
             /\ result' = Table(correct_gaps(data, flat[1], flat[4], flat[3], flat[2]))
    /\ pc' = "returned"
    /\ UNCHANGED data
    /\ Direct
    /\ UNCHANGED batch

CallCorrectOutliers ==
    /\ pc = "idle"
    /\ call.family = "levels"
    /\ \E idx \in IndexLists(Len_(data)),
          a \in {<<3, "median">>, <<2, "median">>, <<3, "mean">>, <<3, "interpolate">>,
                 <<3, "remove">>, <<3, "zscore">>} :
          /\ call' = Call("correct_outliers", idx, a[1], 0, a[2], TimeCol, <<"Y1">>)
          /\ result' = Table(correct_outliers(data, idx, "Y1", a[1], a[2]))
    /\ pc' = "returned"
    /\ UNCHANGED data
    /\ Direct
    /\ UNCHANGED batch

CallCorrectJumps ==
    /\ pc = "idle"
    /\ call.family \in {"levels", "levels missing", "levels long"}
    /\ \E idx \in IndexLists(Len_(data)), w \in {1, 2} :
          /\ call' = Call("correct_jumps", idx, w, 0, "offset", TimeCol, <<"Y1">>)
          /\ result' = Table(correct_jumps(data, idx, "Y1", w))
    /\ pc' = "returned"
    /\ UNCHANGED data
    /\ Direct
    /\ UNCHANGED batch

InitFn ==
    /\ \E family \in Families :
          /\ data \in DirectTables(family)
          /\ call = [fn |-> "none", indices |-> <<>>, window_size |-> 0,
                     threshold |-> 0, method |-> "", time_col |-> TimeCol,
                     value_cols |-> <<>>, detected |-> FALSE, family |-> family]
    /\ config = default_config
    /\ pc = "idle"
    /\ processed_data = NoTable
    /\ gap_indices = <<>>
    /\ outlier_indices = <<>>
    /\ jump_indices = <<>>
    /\ result = NoResult
    /\ log = <<>>
    /\ batch = NoBatch

NextFn ==
    \/ CallDetectGaps
    \/ CallDetectOutliers
    \/ CallDetectJumps
    \/ CorrectDetected
    \/ CallCorrectGaps
    \/ CallCorrectOutliers
    \/ CallCorrectJumps

SpecFn == InitFn /\ [][NextFn]_vars

-----------------------------------------------------------------------------
(* SpecBatch: runs of batch_process (batch_correction.py) *)

\* A data file S{series}_Y{yi}.txt.  kind says what is in it: "zero" (no
\* bytes), "blank" (bytes but no data row), "unreadable" (the loader raises),
\* "data" (a table process_data accepts), "invalid" (a table process_data
\* raises on).
DataFile(series, yi, kind) == [series |-> series, yi |-> yi, kind |-> kind]

FileKinds == {"zero", "blank", "unreadable", "data", "invalid"}

\* len(processed_df) for a file of that kind.
RowsOf(kind) == IF kind \in {"data", "invalid"} THEN 5 ELSE 0

\* Sequence of the elements of a set of integers, ascending.
RECURSIVE SeqOfSet(_)
SeqOfSet(S) ==
    IF S = {} THEN <<>>
    ELSE LET m == SetMin(S) IN <<m>> \o SeqOfSet(S \ {m})

\* The series_selection argument: the string "all" or a list of series.
All == [kind |-> "all"]

Only(series) == [kind |-> "list", series |-> series]

\* _determine_series_to_process without a river-mile map: "all" scans the
\* data directory, anything else is the explicit list.
determine_series_to_process(series_selection, dir) ==
    IF series_selection.kind = "all" THEN SeqOfSet({f.series : f \in dir})
    ELSE series_selection.series

\* The year a Y-index stands for: Y01 is the first year of the range.
YearOf(years, yi) ==
    IF yi <= years[2] - years[1] + 1 THEN years[1] + yi - 1 ELSE 0

\* (series, year, yi) order of sorted(files_to_process).
FileBefore(f, g) ==
    \/ f.series < g.series
    \/ f.series = g.series /\ f.yi < g.yi

RECURSIVE SortFiles(_)
SortFiles(S) ==
    IF S = {} THEN <<>>
    ELSE LET f == CHOOSE x \in S : \A y \in S \ {x} : FileBefore(x, y)
         IN <<f>> \o SortFiles(S \ {f})

\* _find_files_to_process without a year_index_map: the files of the
\* selected series whose Y-index falls in the year range, as
\* (series, year, yi, file) in sorted order.
find_files_to_process(series_list, years, dir) ==
    LET matching == {f \in dir : /\ f.series \in Range(series_list)
                                 /\ YearOf(years, f.yi) # 0}
        sorted == SortFiles(matching)
    IN [k \in 1..Len(sorted) |->
           [series |-> sorted[k].series, year |-> YearOf(years, sorted[k].yi),
            yi |-> sorted[k].yi, kind |-> sorted[k].kind]]

\* The (series_id, i, kind) of the fallback loop: for each selected series
\* named under "series" in the configuration, its raw_data files from 1.
RECURSIVE fallback_files(_, _)
fallback_files(series_list, raw_data) ==
    IF series_list = <<>> THEN <<>>
    ELSE LET series_id == Head(series_list)
             listed == IF series_id \in DOMAIN raw_data THEN raw_data[series_id] ELSE <<>>
         IN [i \in 1..Len(listed) |->
                [series |-> series_id, i |-> i, kind |-> listed[i]]]
            \o fallback_files(Tail(series_list), raw_data)

\* Output paths under output_dir.
YearPath(year, yi) == [name |-> "Year_{year} (Y{yi})_Data.xlsx", year |-> year, yi |-> yi]

SeriesPath(series_id, i) ==
    [name |-> "Series{series}_File{i}_Processed.xlsx", series |-> series_id, i |-> i]

Record(series, year, yi, status, records) ==
    [Series |-> series, Year |-> year, YIndex |-> yi, Status |-> status,
     Records |-> records]

Raise(error) == [kind |-> "error", error |-> error]

\* A variant of persist that ignores dry_run.
persist_always(dry_run, writes, path, f) ==
    Append(writes, [path |-> path, file |-> f])

\* "if not dry_run: processed_df.to_excel(out_path, ...)": the files written
\* so far, after the step that persists file f under path.
persist(dry_run, writes, path, f) ==
    IF dry_run THEN writes ELSE Append(writes, [path |-> path, file |-> f])

\* Lines 357-389: load the configuration, find the data directory, create
\* the output directory.
BatchConfigure ==
    /\ batch.pc = "start"
    /\ IF batch.config = "broken"
       THEN batch' = [batch EXCEPT !.pc = "raised",
                                   !.outcome = Raise("ProcessingError")]
       ELSE IF ~batch.data_dir
       THEN batch' = [batch EXCEPT !.pc = "raised",
                                   !.outcome = Raise("FileNotFoundError: data directory")]
       ELSE batch' = [batch EXCEPT !.pc = "workloads",
                                   !.made_dir = ~batch.dry_run /\ batch.output_dir = "new"]
    /\ UNCHANGED <<data, config, pc, processed_data, gap_indices, outlier_indices,
                   jump_indices, result, log, call>>

\* Lines 391-403: the series and the files to work on.
BatchWorkloads ==
    /\ batch.pc = "workloads"
    /\ LET series_to_process == determine_series_to_process(batch.series_selection, batch.dir)
           files_to_process == find_files_to_process(series_to_process, batch.years, batch.dir)
       IN IF series_to_process = <<>>
          THEN batch' = [batch EXCEPT !.pc = "returned",
                                      !.outcome = [kind |-> "empty"]]
          ELSE IF files_to_process = <<>>
          THEN batch' = [batch EXCEPT
                            !.pc = "fallback",
                            !.series_to_process = series_to_process,
                            !.files_to_process =
                                IF batch.config = "ok" /\ batch.processor
                                THEN fallback_files(series_to_process, batch.raw_data)
                                ELSE <<>>]
          ELSE batch' = [batch EXCEPT !.pc = "main",
                                      !.series_to_process = series_to_process,
                                      !.files_to_process = files_to_process]
    /\ UNCHANGED <<data, config, pc, processed_data, gap_indices, outlier_indices,
                   jump_indices, result, log, call>>

\* Lines 409-443: one file of the fallback loop.
BatchFallbackFile ==
    /\ batch.pc = "fallback"
    /\ batch.i <= Len(batch.files_to_process)
    /\ LET f == batch.files_to_process[batch.i]
       IN IF f.kind \in {"zero", "blank"}
          THEN \* df.empty: nothing is done
               batch' = [batch EXCEPT !.i = @ + 1]
          ELSE IF f.kind \in {"unreadable", "invalid"}
          THEN batch' = [batch EXCEPT
                            !.i = @ + 1,
                            !.summary_records =
                                Append(@, Record(f.series, 0, f.i, "Failed", 0))]
          ELSE batch' = [batch EXCEPT
                            !.i = @ + 1,
                            !.writes = persist(batch.dry_run, @,
                                               SeriesPath(f.series, f.i), f),
                            !.summary_records =
                                Append(@, Record(f.series, 0, f.i, "Fallback Processed",
                                                 RowsOf(f.kind)))]
    /\ UNCHANGED <<data, config, pc, processed_data, gap_indices, outlier_indices,
                   jump_indices, result, log, call>>

\* Lines 445-449: the fallback loop is over.
BatchFallbackReturn ==
    /\ batch.pc = "fallback"
    /\ batch.i > Len(batch.files_to_process)
    /\ batch' = [batch EXCEPT
                    !.pc = "returned",
                    !.outcome = IF batch.summary_records # <<>>
                                THEN [kind |-> "summary", records |-> batch.summary_records]
                                ELSE [kind |-> "empty"]]
    /\ UNCHANGED <<data, config, pc, processed_data, gap_indices, outlier_indices,
                   jump_indices, result, log, call>>

\* Lines 457-507: one file of the main loop.
BatchMainFile ==
    /\ batch.pc = "main"
    /\ batch.i <= Len(batch.files_to_process)
    /\ LET f == batch.files_to_process[batch.i]
           status == IF batch.processor THEN "Processed"
                     ELSE "Processed (No Processor Module)"
       IN IF f.kind = "zero"
          THEN \* os.path.getsize(file_path) == 0: continue
               batch' = [batch EXCEPT !.i = @ + 1]
          ELSE IF \/ f.kind \in {"blank", "unreadable"}
                  \/ f.kind = "invalid" /\ batch.processor
          THEN batch' = [batch EXCEPT
                            !.i = @ + 1,
                            !.summary_records =
                                Append(@, Record(f.series, f.year, f.yi, "Failed", 0))]
          ELSE batch' = [batch EXCEPT
                            !.i = @ + 1,
                            !.writes = persist(batch.dry_run, @,
                                               YearPath(f.year, f.yi), f),
                            !.summary_records =
                                Append(@, Record(f.series, f.year, f.yi, status,
                                                 RowsOf(f.kind)))]
    /\ UNCHANGED <<data, config, pc, processed_data, gap_indices, outlier_indices,
                   jump_indices, result, log, call>>

\* Lines 509-512: the main loop is over.
BatchMainReturn ==
    /\ batch.pc = "main"
    /\ batch.i > Len(batch.files_to_process)
    /\ batch' = [batch EXCEPT
                    !.pc = "returned",
                    !.outcome = [kind |-> "summary", records |-> batch.summary_records]]
    /\ UNCHANGED <<data, config, pc, processed_data, gap_indices, outlier_indices,
                   jump_indices, result, log, call>>

\* The data directories batch_process is run on: up to two files of series
\* 26 of any kind, with or without a data file of series 27.
Directories ==
    {A \cup B \cup C :
        A \in {{}} \cup {{DataFile(26, 1, k)} : k \in FileKinds},
        B \in {{}} \cup {{DataFile(26, 2, k)} : k \in FileKinds},
        C \in {{}, {DataFile(27, 1, "data")}}}

\* The "series" section of the configuration: the raw_data files per series.
RawData ==
    {<<>>} \cup {(26 :> <<k>>) : k \in FileKinds}
           \cup {(99 :> <<"data", k>>) : k \in {"data", "blank", "invalid"}}

BatchRun(series_selection, years, dry_run, output_dir, cfg, data_dir, processor, dir, raw_data) ==
    [pc |-> "start", series_selection |-> series_selection, years |-> years,
     dry_run |-> dry_run, output_dir |-> output_dir, config |-> cfg,
     data_dir |-> data_dir, processor |-> processor, dir |-> dir,
     raw_data |-> raw_data, series_to_process |-> <<>>, files_to_process |-> <<>>,
     i |-> 1, summary_records |-> <<>>, writes |-> <<>>, made_dir |-> FALSE,
     outcome |-> [kind |-> "none"]]

InitBatch ==
    /\ \/ \E sel \in {All, Only(<<26>>), Only(<<99>>), Only(<<26, 27>>)},
             years \in {<<1995, 1995>>, <<2000, 2001>>},
             dry_run \in BOOLEAN, processor \in BOOLEAN,
             dir \in Directories, raw_data \in RawData :
             batch = BatchRun(sel, years, dry_run, "data_dir", "ok", TRUE,
                              processor, dir, raw_data)
       \/ \E dry_run \in BOOLEAN, output_dir \in {"data_dir", "new"},
             cfg \in {"ok", "missing", "broken"}, data_dir \in BOOLEAN,
             sel \in {Only(<<>>), Only(<<26>>), Only(<<99>>)} :
             batch = BatchRun(sel, <<1995, 1995>>, dry_run, output_dir, cfg, data_dir,
                              TRUE, {DataFile(26, 1, "data")}, (99 :> <<"data">>))
    /\ data = NoTable
    /\ config = default_config
    /\ pc = "idle"
    /\ processed_data = NoTable
    /\ gap_indices = <<>>
    /\ outlier_indices = <<>>
    /\ jump_indices = <<>>
    /\ result = NoResult
    /\ log = <<>>
    /\ call = [fn |-> "batch_process"]

NextBatch ==
    \/ BatchConfigure
    \/ BatchWorkloads
    \/ BatchFallbackFile
    \/ BatchFallbackReturn
    \/ BatchMainFile
    \/ BatchMainReturn

SpecBatch == InitBatch /\ [][NextBatch]_vars

-----------------------------------------------------------------------------
(* Properties.  The statistics below are stated from their definitions, *)
(* without sorting, so that they do not share code with the operators   *)
(* they are compared with.                                              *)

Present(s) == SelectSeq(s, LAMBDA x : x # NaN)

CountWhere(s, Test(_)) == Cardinality({i \in 1..Len(s) : Test(s[i])})

\* The element of rank r (0-based) of a non-empty sequence.
OrderStat(s, r) ==
    CHOOSE x \in Range(s) :
        /\ CountWhere(s, LAMBDA y : y < x) <= r
        /\ r < CountWhere(s, LAMBDA y : y <= x)

\* Twice the median of the present cells of s (s has a present cell).
TwiceMedian(s) ==
    LET v == Present(s)
        k == Len(v)
    IN OrderStat(v, (k - 1) \div 2) + OrderStat(v, k \div 2)

Cell(t, col, i) == At(Column(t, col), i)

SameShape(t1, t2) ==
    /\ t1.cols = t2.cols
    /\ t1.dtype = t2.dtype
    /\ Len_(t1) = Len_(t2)

\* t1 and t2 agree everywhere outside column col.
SameOutside(t1, t2, col) ==
    /\ SameShape(t1, t2)
    /\ \A i \in 0..(Len_(t1) - 1), c \in Range(t1.cols) \ {col} :
          Cell(t1, c, i) = Cell(t2, c, i)

\* ---- C1 ----
C1_Case ==
    /\ pc = "returned"
    /\ call.fn = "correct_jumps"
    /\ Len(call.indices) = 1
    /\ LET p == call.indices[1]
           w == call.window_size
           values == Column(data, "Y1")
       IN /\ w <= p
          /\ p < Len(values) - w
          /\ Present(SubSeq(values, p - w + 1, p)) # <<>>
          /\ Present(SubSeq(values, p + 1, p + w)) # <<>>

\* Twice the offset d = median(values[p-w .. p-1]) - median(values[p .. p+w-1]).
C1_d2 ==
    LET p == call.indices[1]
        w == call.window_size
        values == Column(data, "Y1")
    IN TwiceMedian(SubSeq(values, p - w + 1, p)) - TwiceMedian(SubSeq(values, p + 1, p + w))

\* C1: correct_jumps called with a single flagged position p, with
\* w <= p < n - w and both medians defined, adds exactly
\* d = median(values[p-w .. p-1]) - median(values[p .. p+w-1]) to the value
\* at every position >= p and leaves every position < p unchanged.
C1_SingleJumpOffset ==
    C1_Case =>
        /\ SameOutside(result.table, data, "Y1")
        /\ \A i \in 0..(Len_(data) - 1) :
              LET pre == Cell(data, "Y1", i)
                  post == Cell(result.table, "Y1", i)
              IN IF i >= call.indices[1] /\ pre # NaN
                 THEN post # NaN /\ 2 * post = 2 * pre + C1_d2
                 ELSE post = pre

C1_Witness ==
    /\ C1_Case
    /\ C1_d2 # 0
    /\ call.indices[1] < Len_(data) - 1

\* ---- C2 ----
C2_Case ==
    /\ pc = "returned"
    /\ call.fn = "correct_outliers"
    /\ call.method = "remove"

\* C2: correct_outliers with method "remove" sets the value at exactly the
\* flagged positions to missing and leaves every other value, every other
\* column, the row count and the row order unchanged, whatever the order or
\* repetition of the flagged list.
C2_RemoveSetsExactlyFlagged ==
    C2_Case =>
        /\ SameOutside(result.table, data, "Y1")
        /\ \A i \in 0..(Len_(data) - 1) :
              Cell(result.table, "Y1", i) =
                  IF \E k \in 1..Len(call.indices) : call.indices[k] = i
                  THEN NaN
                  ELSE Cell(data, "Y1", i)

C2_Witness ==
    /\ C2_Case
    /\ Len(call.indices) = 2
    /\ call.indices[1] > call.indices[2]
    /\ Cell(data, "Y1", call.indices[1]) # NaN

\* ---- C3 ----
C3_Case ==
    /\ pc = "returned"
    /\ call.fn = "correct_gaps"
    /\ call.indices = <<>>

\* C3: correct_gaps called with an empty finding set returns a table equal
\* to its input (same rows, same order, same values), whatever the method,
\* the value columns and the time column passed.
C3_NoGapsUnchanged ==
    C3_Case => result = [kind |-> "table", table |-> data]

C3_Witness ==
    /\ C3_Case
    /\ HasColumn(data, call.time_col)
    /\ \E i \in 1..(Len_(data) - 1) :
          Cell(data, call.time_col, i) < Cell(data, call.time_col, i - 1)

\* ---- C4 ----
TimeSorted(t, time_col) ==
    /\ HasColumn(t, time_col)
    /\ \A i \in 0..(Len_(t) - 1) : Cell(t, time_col, i) # NaN
    /\ \A i \in 1..(Len_(t) - 1) : Cell(t, time_col, i - 1) <= Cell(t, time_col, i)

C4_Case ==
    /\ pc = "detected"
    /\ call.fn = "detect_gaps"
    /\ TimeSorted(data, call.time_col)

\* The successive differences of the times of a table of at least 2 rows.
C4_Diffs ==
    [i \in 1..(Len_(data) - 1) |->
        Cell(data, call.time_col, i) - Cell(data, call.time_col, i - 1)]

C4_Expected ==
    IF Len_(data) < 2 THEN {}
    ELSE IF TwiceMedian(C4_Diffs) <= 0 THEN {}
    ELSE {i \in 1..(Len_(data) - 1) :
            2 * C4_Diffs[i] > call.threshold * TwiceMedian(C4_Diffs)}

\* C4: on a time-sorted table of n rows, detect_gaps returns nothing when
\* n < 2 or when the median m of the n-1 successive time differences is
\* <= 0; otherwise it returns, in ascending order, exactly the positions
\* i in 1..n-1 with time[i] - time[i-1] > gap_threshold_factor * m.
C4_DetectGapsPositions ==
    C4_Case =>
        /\ result.kind = "indices"
        /\ Range(result.indices) = C4_Expected
        /\ \A k \in 1..(Len(result.indices) - 1) :
              result.indices[k] < result.indices[k + 1]

C4_Witness ==
    /\ C4_Case
    /\ result.indices # <<>>
    /\ \E i \in 1..(Len_(data) - 1) :
          /\ i \notin Range(result.indices)
          /\ C4_Diffs[i] > 0

\* ---- C5 ----
C5_Input ==
    /\ HasColumn(data, TimeCol)
    /\ Column(data, TimeCol) = <<0, 1, 2, 3, 10, 11>>
    /\ call.threshold = 3

C5_Detected ==
    /\ C5_Input
    /\ pc = "detected"
    /\ call.fn = "detect_gaps"

C5_Corrected ==
    /\ C5_Input
    /\ pc = "returned"
    /\ call.fn = "correct_gaps"
    /\ call.detected

\* C5 (Scenario B): for a table with timestamps 0,1,2,3,10,11 and
\* gap_threshold_factor 3, detect_gaps flags exactly position 4 (timestamp
\* 10), and correct_gaps with that finding returns 12 rows with timestamps
\* 0..11 (4..9 inserted, every difference 1), the original rows keeping
\* their values and the inserted values lying on the line between the
\* values at timestamps 3 and 10.
C5_ScenarioB ==
    /\ C5_Detected => result = [kind |-> "indices", indices |-> <<4>>]
    /\ C5_Corrected =>
          /\ call.indices = <<4>>
          /\ result.kind = "table"
          /\ Column(result.table, TimeCol) = [i \in 1..12 |-> i - 1]
          /\ \A i \in 0..5 :
                Cell(result.table, "Y1", Cell(data, TimeCol, i)) = Cell(data, "Y1", i)
          /\ \A t \in 4..9 :
                7 * (Cell(result.table, "Y1", t) - Cell(data, "Y1", 3))
                    = (t - 3) * (Cell(data, "Y1", 4) - Cell(data, "Y1", 3))

C5_Witness ==
    /\ C5_Corrected
    /\ Cell(data, "Y1", 3) # Cell(data, "Y1", 4)

\* ---- C6 ----
\* 10 evenly spaced rows of value 10 except one row of value 1000, examined
\* with window_size 5 and threshold 3.
C6_Input ==
    /\ HasColumn(data, TimeCol)
    /\ Column(data, TimeCol) = [i \in 1..10 |-> i - 1]
    /\ \E k \in 0..9 :
          \A i \in 0..9 :
              Cell(data, "Y1", i) = IF i = k THEN 1000 * Unit ELSE 10 * Unit
    /\ call.window_size = 5
    /\ call.threshold = 3

\* The row that holds the 1000.
C6_Row == CHOOSE k \in 0..9 : Cell(data, "Y1", k) = 1000 * Unit

C6_Detected ==
    /\ C6_Input
    /\ pc = "detected"
    /\ call.fn = "detect_outliers"

C6_Corrected ==
    /\ C6_Input
    /\ pc = "returned"
    /\ call.fn = "correct_outliers"
    /\ call.method = "median"
    /\ call.detected

C6_Restored ==
    /\ SameOutside(result.table, data, "Y1")
    /\ \A i \in 0..9 : Cell(result.table, "Y1", i) = 10 * Unit

\* C6 as stated (Scenario A): whichever of the 10 rows holds the 1000,
\* detect_outliers flags exactly that row and correct_outliers with method
\* "median" then replaces its value by 10.
C6_AnyRow ==
    /\ C6_Detected => result = [kind |-> "indices", indices |-> <<C6_Row>>]
    /\ C6_Corrected => call.indices = <<C6_Row>> /\ C6_Restored

\* C6 amended (Scenario A): when the 1000 is in one of the rows 2..7 (the
\* rows with a full centred window of 5), detect_outliers flags exactly that
\* row and correct_outliers with method "median" then replaces its value by
\* 10; when it is in one of the rows 0, 1, 8, 9, nothing is flagged and the
\* table comes back unchanged.
C6_ScenarioA ==
    /\ C6_Detected =>
          result = [kind |-> "indices",
                    indices |-> IF C6_Row \in 2..7 THEN <<C6_Row>> ELSE <<>>]
    /\ C6_Corrected =>
          IF C6_Row \in 2..7
          THEN call.indices = <<C6_Row>> /\ C6_Restored
          ELSE call.indices = <<>> /\ result.table = data

C6_Witness ==
    /\ C6_Corrected
    /\ C6_Row \in 2..7
    /\ Cell(result.table, "Y1", C6_Row) = 10 * Unit

\* ---- C7 ----
\* 40 rows flat at 0 for rows 0-19 and at 5 for rows 20-39, window_size 5,
\* threshold 3.
C7_Input ==
    /\ Len_(data) = 40
    /\ \A i \in 0..39 : Cell(data, "Y1", i) = IF i < 20 THEN 0 ELSE 5 * Unit
    /\ call.window_size = 5
    /\ call.threshold = 3

C7_Detected ==
    /\ C7_Input
    /\ pc = "detected"
    /\ call.fn = "detect_jumps"

C7_Corrected ==
    /\ C7_Input
    /\ pc = "returned"
    /\ call.fn = "correct_jumps"
    /\ call.detected

\* C7 (Scenario C): detect_jumps flags a position within one window of row
\* 20, and correct_jumps shifts every row at or after the flagged position
\* by -5, so that the median of the window after the flagged position equals
\* the median of the window before it.
C7_ScenarioC ==
    /\ C7_Detected =>
          /\ result.indices # <<>>
          /\ \A k \in 1..Len(result.indices) : Abs(result.indices[k] - 20) <= 5
    /\ C7_Corrected =>
          /\ call.indices # <<>>
          /\ LET p == call.indices[1]
                 after == Column(result.table, "Y1")
             IN /\ \A i \in 0..39 :
                      At(after, i) = IF i >= p THEN Cell(data, "Y1", i) - 5 * Unit
                                     ELSE Cell(data, "Y1", i)
                /\ TwiceMedian(SubSeq(after, p + 1, p + 5))
                      = TwiceMedian(SubSeq(after, p - 4, p))

\* ---- C8 ----
\* t is a table process_data accepts as it is under the caller's
\* configuration: numeric time column, value column resolved.
C8_Accepted(t) ==
    /\ HasColumn(t, call.config.time_col)
    /\ t.dtype[call.config.time_col] = "num"
    /\ resolve_value_col(t, call.config).ok

C8_Sorted(t) == sort_values(t, call.config.time_col)

\* All three detectors return empty on the time-sorted t.
C8_Clean(t) ==
    /\ C8_Accepted(t)
    /\ LET value_col == resolve_value_col(t, call.config).value_col
           sorted == C8_Sorted(t)
       IN /\ detect_gaps(sorted, call.config.time_col,
                         call.config.gap_threshold_factor) = <<>>
          /\ detect_outliers(sorted, value_col, call.config.window_size,
                             call.config.threshold) = <<>>
          /\ detect_jumps(sorted, value_col, call.config.window_size,
                          call.config.threshold) = <<>>

\* C8 (idempotence on clean data): if all three detectors return empty on
\* the time-sorted input, process_data returns the time-sorted input
\* unchanged, and process_data run again on that output with the same
\* configuration returns the same table.
C8_IdempotentOnClean ==
    /\ (pc = "done" /\ call.run = 1 /\ C8_Clean(data)) =>
          result = [kind |-> "table", table |-> C8_Sorted(data)]
    /\ (pc = "done" /\ call.run = 2 /\ C8_Clean(call.first_input)) =>
          /\ call.first_result = C8_Sorted(call.first_input)
          /\ data = call.first_result
          /\ result = [kind |-> "table", table |-> call.first_result]

C8_Witness ==
    /\ pc = "done"
    /\ call.run = 2
    /\ C8_Clean(call.first_input)
    /\ Len_(call.first_input) >= 3
    /\ call.first_input # call.first_result

\* ---- C9 ----
C9_Detectors == <<"detect_gaps", "detect_outliers", "detect_jumps">>

C9_CorrectorOf(stage) ==
    IF stage = "detect_gaps" THEN "correct_gaps"
    ELSE IF stage = "detect_outliers" THEN "correct_outliers"
    ELSE "correct_jumps"

C9_IsDetector(e) == \E k \in 1..3 : e.stage = C9_Detectors[k]

\* The table a stage leaves behind: a detector leaves the one it read.
C9_TableAfter(e) == IF C9_IsDetector(e) THEN e.read ELSE e.out

\* The stages that have run so far, in the order they ran.
C9_DetectorsRun == SelectSeq(log, C9_IsDetector)

\* C9: process_data runs the stages in the fixed order gap detect, gap
\* correct, outlier detect, outlier correct, jump detect, jump correct:
\* every detector runs exactly once, each stage reads the table left by the
\* stage before it (the first one the time-sorted working copy, not the
\* caller's table), and a corrector runs if and only if its own detector
\* has just returned a non-empty finding set.
C9_StageOrder ==
    /\ pc \in {"start", "sort", "raised"} => log = <<>>
    \* detectors in the fixed order, none twice
    /\ Len(C9_DetectorsRun) <= 3
    /\ \A k \in 1..Len(C9_DetectorsRun) : C9_DetectorsRun[k].stage = C9_Detectors[k]
    /\ pc \in {"return", "done"} => Len(C9_DetectorsRun) = 3
    \* the first stage is gap detection on the sorted working copy
    /\ log # <<>> =>
          /\ log[1].stage = "detect_gaps"
          /\ log[1].read = sort_values(resolve_time_col(data, call.config).table,
                                       call.config.time_col)
    \* a corrector only directly after its own detector found something
    /\ \A k \in 1..Len(log) :
          ~C9_IsDetector(log[k]) =>
              /\ k > 1
              /\ C9_IsDetector(log[k - 1])
              /\ log[k].stage = C9_CorrectorOf(log[k - 1].stage)
              /\ log[k - 1].out # <<>>
    \* a detector that found something is followed by its corrector
    /\ \A k \in 1..Len(log) :
          (C9_IsDetector(log[k]) /\ log[k].out # <<>>) =>
              IF k < Len(log)
              THEN log[k + 1].stage = C9_CorrectorOf(log[k].stage)
              ELSE pc = C9_CorrectorOf(log[k].stage)
    \* every stage reads what the stage before it left
    /\ \A k \in 2..Len(log) : log[k].read = C9_TableAfter(log[k - 1])
    /\ log # <<>> => processed_data = C9_TableAfter(log[Len(log)])
    /\ pc = "done" => result = [kind |-> "table", table |-> C9_TableAfter(log[Len(log)])]

C9_Witness ==
    /\ pc = "done"
    /\ Len(log) >= 5
    /\ log[3].read # data
    /\ log[3].read # log[1].read

\* ---- C10 ----
\* The conditions are read off the caller's table and configuration.
C10_TimeAbsent == call.config.time_col \notin Range(data.cols)

C10_TimeUnconvertible ==
    /\ ~C10_TimeAbsent
    /\ data.dtype[call.config.time_col] \notin {"num", "datetime"}

C10_ValueAbsent ==
    /\ call.config.value_col # None
    /\ call.config.value_col \notin Range(data.cols)

\* The configured value column is not numeric in the caller's table.
C10_ValueNonNumeric ==
    /\ call.config.value_col # None
    /\ call.config.value_col \in Range(data.cols)
    /\ data.dtype[call.config.value_col] # "num"

\* The configured value column is not numeric once the time column has been
\* converted (a datetime time column is numeric by then).
C10_ValueNonNumericConverted ==
    /\ C10_ValueNonNumeric
    /\ ~(/\ call.config.value_col = call.config.time_col
         /\ data.dtype[call.config.value_col] = "datetime")

C10_NoOtherNumeric ==
    \A c \in Range(data.cols) \ {call.config.time_col} : data.dtype[c] # "num"

\* process_data fails before any stage: the call is either not yet
\* validated or has raised, no stage has run, no table exists or is
\* returned, and the caller's table is what was passed.
C10_FailsFast ==
    /\ call.fn = "process_data"
    /\ pc \in {"start", "raised"}
    /\ pc = "raised" => result.kind = "error"
    /\ log = <<>>
    /\ gap_indices = <<>> /\ outlier_indices = <<>> /\ jump_indices = <<>>
    /\ processed_data = NoTable
    /\ result.kind # "table"
    /\ data = call.input

C11_Configured == call.config.value_col # None

\* The configured value column exists and is numeric when process_data
\* tests it, that is once a datetime time column has been converted.
C11_Usable ==
    /\ call.config.value_col \in Range(data.cols)
    /\ \/ data.dtype[call.config.value_col] = "num"
       \/ /\ call.config.value_col = call.config.time_col
          /\ data.dtype[call.config.value_col] = "datetime"

\* Positions, in table order, of the numeric columns other than the time column.
C11_Candidates ==
    {k \in 1..Len(data.cols) :
        data.dtype[data.cols[k]] = "num" /\ data.cols[k] # call.config.time_col}

C11_Expected ==
    IF C11_Configured THEN call.config.value_col
    ELSE data.cols[CHOOSE k \in C11_Candidates : \A j \in C11_Candidates : k <= j]

C11_TimeOk ==
    /\ call.config.time_col \in Range(data.cols)
    /\ data.dtype[call.config.time_col] \in {"num", "datetime"}

\* A stage of the log works on column col only.
C11_StageOn(e, col) ==
    IF e.stage = "detect_gaps" THEN TRUE
    ELSE IF e.stage = "detect_outliers"
    THEN e.out = detect_outliers(e.read, col, config.window_size, config.threshold)
    ELSE IF e.stage = "detect_jumps"
    THEN e.out = detect_jumps(e.read, col, config.window_size, config.threshold)
    ELSE IF e.stage = "correct_gaps"
    THEN \A c \in Range(e.read.cols) \ {col, config.time_col} :
            Present(Column(e.out, c)) = Present(Column(e.read, c))
    ELSE SameOutside(e.out, e.read, col)

\* C11: when value_col is configured, that column is used if it exists and
\* is numeric and the call fails otherwise (no fallback to another column);
\* when value_col is unset, the first numeric column in table order that is
\* not the time column is used; every stage of the call then works on this
\* one column.
C11_ValueColumnResolution ==
    (call.fn = "process_data" /\ pc # "start" /\ C11_TimeOk) =>
        IF C11_Configured /\ ~C11_Usable THEN pc = "raised"
        ELSE IF ~C11_Configured /\ C11_Candidates = {} THEN pc = "raised"
        ELSE /\ pc # "raised"
             /\ config.value_col = C11_Expected
             /\ \A k \in 1..Len(log) : C11_StageOn(log[k], C11_Expected)

C11_Witness ==
    /\ call.fn = "process_data"
    /\ pc = "done"
    /\ ~C11_Configured
    /\ C11_Expected # data.cols[2]
    /\ Len(log) >= 4

\* ---- C12 ----
\* The integer nearest to a / b (a >= 0, b > 0), the even one of two equally
\* near.
NearestEven(a, b) ==
    CHOOSE q \in 0..(a + 1) :
        /\ Abs(2 * a - 2 * q * b) <= b
        /\ Abs(2 * a - 2 * q * b) = b => q % 2 = 0

\* The times of the input of correct_gaps in time order.
C12_Times == Column(sort_values(data, call.time_col), call.time_col)

C12_HasStep(g) == g - 1 > 0 \/ Len(C12_Times) > g + 1

\* The normal step of the gap at position g: the interval before the gap,
\* or the one after it when the gap follows the first row.
C12_Step(g) ==
    IF g - 1 > 0 THEN At(C12_Times, g - 1) - At(C12_Times, g - 2)
    ELSE At(C12_Times, g + 1) - At(C12_Times, g)

C12_MissingCount(g) ==
    NearestEven(At(C12_Times, g) - At(C12_Times, g - 1), C12_Step(g)) - 1

\* The gap at position g is flagged and not skipped.
C12_Filled(g) ==
    /\ \E k \in 1..Len(call.indices) : call.indices[k] = g
    /\ g >= 1
    /\ C12_HasStep(g)
    /\ C12_Step(g) > 0
    /\ C12_MissingCount(g) > 0

\* The rows added for the flagged positions up to g.
RECURSIVE C12_Added(_)
C12_Added(g) ==
    IF g < 0 THEN 0
    ELSE (IF C12_Filled(g) THEN C12_MissingCount(g) ELSE 0) + C12_Added(g - 1)

C12_GapCase ==
    /\ pc = "returned"
    /\ call.fn = "correct_gaps"
    /\ call.indices # <<>>

\* C12: correct_gaps returns a table whose row count is the input row count
\* plus the sum, over the flagged gaps that are not skipped, of
\* missing_count = round((t_after - t_before) / step) - 1, a position
\* flagged twice being filled once; correct_outliers and correct_jumps
\* return as many rows as they were given.
C12_RowCount ==
    /\ C12_GapCase =>
          Len_(result.table) = Len_(data) + C12_Added(Len_(data) - 1)
    /\ (pc = "returned" /\ call.fn = "correct_gaps" /\ call.indices = <<>>) =>
          Len_(result.table) = Len_(data)
    /\ (pc = "returned" /\ call.fn \in {"correct_outliers", "correct_jumps"}) =>
          Len_(result.table) = Len_(data)

C12_Witness ==
    /\ C12_GapCase
    /\ Len(call.indices) = 2
    /\ call.indices[1] = call.indices[2]
    /\ Len_(result.table) > Len_(data) + 1

\* ---- C13 ----
\* The time column of t is in non-decreasing order.
C13_Ascending(t) ==
    \A i \in 1..(Len_(t) - 1) :
        /\ Cell(t, config.time_col, i - 1) # NaN
        /\ Cell(t, config.time_col, i) # NaN
        /\ Cell(t, config.time_col, i - 1) <= Cell(t, config.time_col, i)

\* C13: for any input row order, the table is in ascending (non-decreasing)
\* order of the time column at the entry of each of the three detect stages
\* and in the table process_data returns; rows inserted by gap correction
\* never break the time order.
C13_TimeOrder ==
    call.fn = "process_data" =>
        /\ \A k \in 1..Len(log) :
              C9_IsDetector(log[k]) => C13_Ascending(log[k].read)
        /\ pc = "done" => C13_Ascending(result.table)

\* The same for calls whose value column is not the time column.
C13_TimeOrderOtherColumn ==
    (call.fn = "process_data" /\ call.config.value_col # call.config.time_col) =>
        /\ \A k \in 1..Len(log) :
              C9_IsDetector(log[k]) => C13_Ascending(log[k].read)
        /\ pc = "done" => C13_Ascending(result.table)

\* ---- C14 ----
\* No cell of a numeric column of t other than the time column is missing.
C14_NoMissingValue(t) ==
    \A c \in Range(t.cols) \ {call.config.time_col} :
        t.dtype[c] = "num" => \A i \in 0..(Len_(t) - 1) : Cell(t, c, i) # NaN

\* No cell of t at all is missing.
C14_Complete(t) ==
    \A c \in Range(t.cols) : \A i \in 0..(Len_(t) - 1) : Cell(t, c, i) # NaN

\* C14: missing markers in the output come only from "remove"-style outlier
\* correction: if the input table has no missing cell and outlier_method is
\* not "remove", the table process_data returns has no missing cell in any
\* value column, also when the table has several numeric value columns and
\* gaps are filled.
C14_MissingOnlyFromRemove ==
    (/\ call.fn = "process_data"
     /\ pc = "done"
     /\ C14_Complete(data)
     /\ call.config.outlier_method # "remove") => C14_NoMissingValue(result.table)

\* ---- C15 ----
C15_Flagged(i) == \E k \in 1..Len(call.indices) : call.indices[k] = i

\* correct_jumps skips position p: no margin of window_size on one side, or
\* a window with no present value.
C15_JumpSkipped(p) ==
    LET values == Column(data, "Y1")
        w == call.window_size
    IN \/ p < w
       \/ p >= Len(values) - w
       \/ Present(SubSeq(values, p - w + 1, p)) = <<>>
       \/ Present(SubSeq(values, p + 1, p + w)) = <<>>

\* The positions correct_outliers may take the replacement of item i from:
\* the window around i without the flagged positions.
C15_Neighbours(i) ==
    LET half == call.window_size \div 2
        all == [k \in 1..Len_(data) |-> k - 1]
    IN SelectSeq(all, LAMBDA j : /\ i - half <= j
                                 /\ j <= i + half
                                 /\ ~C15_Flagged(j))

C15_NeighbourValues(i) ==
    Present([k \in 1..Len(C15_Neighbours(i)) |-> Cell(data, "Y1", C15_Neighbours(i)[k])])

\* correct_outliers (median, mean) skips item i: no neighbour to take a
\* replacement from.
C15_OutlierSkipped(i) == C15_NeighbourValues(i) = <<>>

C15_Skipped(i) ==
    IF call.fn = "correct_gaps" THEN ~C12_Filled(i)
    ELSE IF call.fn = "correct_jumps" THEN C15_JumpSkipped(i)
    ELSE C15_OutlierSkipped(i)

\* The finding set without its skipped items.
C15_Kept == SelectSeq(call.indices, LAMBDA i : ~C15_Skipped(i))

\* The corrector of the call, with its arguments, on the finding set idxs.
C15_Corrected(idxs) ==
    IF call.fn = "correct_gaps"
    THEN correct_gaps(data, idxs, call.time_col, call.value_cols, call.method)
    ELSE IF call.fn = "correct_jumps"
    THEN correct_jumps(data, idxs, "Y1", call.window_size)
    ELSE correct_outliers(data, idxs, "Y1", call.window_size, call.method)

\* A corrector has returned from a finding set holding a skipped item.
C15_Case ==
    /\ pc = "returned"
    /\ \/ call.fn \in {"correct_gaps", "correct_jumps"}
       \/ call.fn = "correct_outliers" /\ call.method \in {"median", "mean"}
    /\ C15_Kept # call.indices

\* C15 as stated: a skipped item changes nothing for the others: the result
\* is the one the corrector gives for the finding set without the skipped
\* items, and no error is raised.
C15_AsIfNotInSet ==
    C15_Case =>
        /\ result.kind = "table"
        /\ result.table = C15_Corrected(C15_Kept)

RECURSIVE C15_Total(_)
C15_Total(s) == IF s = <<>> THEN 0 ELSE Head(s) + C15_Total(Tail(s))

\* v is the median (mean) of the values s, at the resolution of a cell.
C15_IsReplacement(v, s) ==
    IF call.method = "median" THEN 2 * v = TwiceMedian(s)
    ELSE Len(s) * v <= C15_Total(s) /\ C15_Total(s) < Len(s) * v + Len(s)

\* C15 amended: a skipped item is left as it is, no error is raised, and
\* every other item is processed: in correct_gaps and correct_jumps exactly
\* as if the skipped items were not in the finding set; in correct_outliers
\* (median, mean) from the unflagged values of its window, the skipped items
\* still counting as flagged.
C15_SkipOnlyThatItem ==
    C15_Case =>
        /\ result.kind = "table"
        /\ call.fn \in {"correct_gaps", "correct_jumps"} =>
              result.table = C15_Corrected(C15_Kept)
        /\ call.fn = "correct_outliers" =>
              /\ SameOutside(result.table, data, "Y1")
              /\ \A i \in 0..(Len_(data) - 1) :
                    IF C15_Flagged(i) /\ ~C15_OutlierSkipped(i)
                    THEN C15_IsReplacement(Cell(result.table, "Y1", i),
                                           C15_NeighbourValues(i))
                    ELSE Cell(result.table, "Y1", i) = Cell(data, "Y1", i)

C15_Witness ==
    /\ C15_Case
    /\ call.fn = "correct_outliers"
    /\ C15_Kept # <<>>
    /\ result.table # data
    /\ result.table # C15_Corrected(C15_Kept)

-----------------------------------------------------------------------------
(* C16: a dry run writes nothing and still reports every file it worked on *)

\* File f of a run is non-empty for the loop that works on it: the main loop
\* (files with a year) passes over zero-byte files, the fallback mode over
\* files whose loaded table is empty.
C16_IsNonEmpty(f) ==
    IF "year" \in DOMAIN f THEN f.kind # "zero"
    ELSE f.kind \notin {"zero", "blank"}

C16_NonEmpty ==
    {k \in 1..Len(batch.files_to_process) :
        C16_IsNonEmpty(batch.files_to_process[k])}

\* The records of the summary that stand for file k of the run.
C16_RecordsOf(k) ==
    LET f == batch.files_to_process[k]
    IN {r \in 1..Len(batch.summary_records) :
           /\ batch.summary_records[r].Series = f.series
           /\ batch.summary_records[r].YIndex = IF "yi" \in DOMAIN f THEN f.yi ELSE f.i}

\* C16: batch_process with dry_run true writes no output file for any input
\* file, in the main loop or in the fallback mode, and the summary it returns
\* has exactly one record for each non-empty file it worked on (and none for
\* any other file).
C16_DryRunWritesNothing ==
    batch.pc \in {"main", "fallback", "returned"} /\ batch.dry_run
    => /\ batch.writes = <<>>
       /\ ~batch.made_dir
       /\ batch.pc = "returned" /\ batch.outcome.kind # "none"
          => /\ \A k \in C16_NonEmpty : Cardinality(C16_RecordsOf(k)) = 1
             /\ Len(batch.summary_records) = Cardinality(C16_NonEmpty)
             /\ batch.outcome.kind = "summary"
                => batch.outcome.records = batch.summary_records

\* A dry run that returned a summary of several files, from the main loop or
\* from the fallback mode, one of them processed and one of them failed.
C16_Witness ==
    /\ batch.pc = "returned"
    /\ batch.dry_run
    /\ batch.outcome.kind = "summary"
    /\ Len(batch.outcome.records) >= 2
    /\ \E r \in 1..Len(batch.outcome.records) :
          batch.outcome.records[r].Status \in {"Processed", "Fallback Processed"}
    /\ batch.writes = <<>>

-----------------------------------------------------------------------------
(* C17: a run that finds no matching data file *)

\* The series a run selects, read from its arguments and the directory.
C17_Selected ==
    IF batch.series_selection.kind = "all" THEN {f.series : f \in batch.dir}
    ELSE Range(batch.series_selection.series)

\* No file of the data directory belongs to a selected series and has a
\* Y-index inside the year range.
C17_NoFileMatches ==
    ~\E f \in batch.dir :
        /\ f.series \in C17_Selected
        /\ f.yi >= 1
        /\ f.yi <= batch.years[2] - batch.years[1] + 1

\* The run got as far as looking for its files and has ended.
C17_Ended ==
    /\ batch.pc \in {"returned", "raised"}
    /\ batch.config # "broken"
    /\ batch.data_dir

\* C17: when no data file matches the selected series and year range,
\* batch_process raises FileNotFoundError ("No valid data files found")
\* instead of returning a summary.
C17_NoFilesRaises ==
    C17_Ended /\ C17_NoFileMatches
    => /\ batch.pc = "raised"
       /\ batch.outcome = Raise("FileNotFoundError: No valid data files found")

\* What the code does in that case: it never raises; it returns an empty
\* table, or the summary of the fallback mode.
C17_NoFilesReturns ==
    C17_Ended /\ C17_NoFileMatches
    => /\ batch.pc = "returned"
       /\ batch.outcome.kind \in {"empty", "summary"}
       /\ batch.outcome.kind = "summary"
          => /\ batch.outcome.records # <<>>
             /\ \A r \in 1..Len(batch.outcome.records) :
                   batch.outcome.records[r].Year = 0

\* The run of the test: series 99, years 2000-2001, no file of series 99.
C17_TestRun ==
    /\ C17_Ended
    /\ batch.series_selection = Only(<<99>>)
    /\ batch.years = <<2000, 2001>>
    /\ ~batch.dry_run
    /\ DOMAIN batch.raw_data = {}
    /\ batch.outcome.kind = "empty"

-----------------------------------------------------------------------------
(* C18: the timestamps correct_gaps inserts *)

\* Timestamp k (from 1) of the rows inserted for the filled gap at position
\* g: the rows for lower positions come before it in the returned table.
C18_Inserted(g, k) ==
    Cell(result.table, call.time_col, g + C12_Added(g - 1) + k - 1)

C18_Before(g) == At(C12_Times, g - 1)

C18_After(g) == At(C12_Times, g)

C18_Gaps == {g \in 1..(Len_(data) - 1) : C12_GapCase /\ C12_Filled(g)}

\* Every inserted timestamp lies strictly between the boundaries of its gap.
C18_Between(g) ==
    \A k \in 1..C12_MissingCount(g) :
        /\ C18_Before(g) < C18_Inserted(g, k)
        /\ C18_Inserted(g, k) < C18_After(g)

C18_Increasing(g) ==
    \A k \in 1..(C12_MissingCount(g) - 1) :
        C18_Inserted(g, k) < C18_Inserted(g, k + 1)

\* The same distance between any two neighbours.
C18_Even(g) ==
    \A j, k \in 1..(C12_MissingCount(g) - 1) :
        C18_Inserted(g, j + 1) - C18_Inserted(g, j)
            = C18_Inserted(g, k + 1) - C18_Inserted(g, k)

\* C18: whenever correct_gaps fills a flagged gap between boundary rows with
\* times t_before < t_after, every inserted timestamp t satisfies
\* t_before < t < t_after, and the inserted timestamps are strictly
\* increasing and evenly spaced, for any positive normal step.
C18_InsertedTimes ==
    \A g \in C18_Gaps :
        /\ C18_Before(g) < C18_After(g)
        /\ C18_Between(g)
        /\ C18_Increasing(g)
        /\ C18_Even(g)

\* What holds for a whole-number time column: between the boundaries,
\* strictly increasing, and each timestamp the evenly spaced sample of
\* [t_before + step, t_after - step] rounded down, so that two distances
\* between neighbours differ by at most one.
C18_InsertedTimesRoundedDown ==
    \A g \in C18_Gaps :
        /\ C18_Before(g) < C18_After(g)
        /\ C18_Between(g)
        /\ C18_Increasing(g)
        /\ C18_Inserted(g, 1) = C18_Before(g) + C12_Step(g)
        /\ C12_MissingCount(g) > 1 =>
              C18_Inserted(g, C12_MissingCount(g)) = C18_After(g) - C12_Step(g)
        /\ \A j, k \in 1..(C12_MissingCount(g) - 1) :
              Abs((C18_Inserted(g, j + 1) - C18_Inserted(g, j))
                  - (C18_Inserted(g, k + 1) - C18_Inserted(g, k))) <= 1

\* A filled gap of three inserted rows whose distances differ.
C18_Uneven ==
    \E g \in C18_Gaps : C12_MissingCount(g) = 3 /\ ~C18_Even(g)

-----------------------------------------------------------------------------
(* C19: the rows correct_gaps reads while it works through the findings *)

\* The time-sorted input of the call and its findings in processing order.
C19_Sorted == sort_values(data, call.time_col).rows

C19_Order == SortDesc(call.indices)

\* The working table at the moment the k-th finding in processing order is
\* looked at: the sorted input after the findings before it.
C19_Working(k) ==
    correct_gaps_loop(C19_Sorted, SubSeq(C19_Order, 1, k - 1), {}, call.time_col)

\* The k-th finding is processed: it is not position 0 and not a position
\* already met.
C19_Processed(k) ==
    /\ k \in 1..Len(C19_Order)
    /\ C19_Order[k] >= 1
    /\ \A j \in 1..(k - 1) : C19_Order[j] # C19_Order[k]

\* Row p of the working table is row p of the sorted input.
C19_Original(k, p) ==
    /\ p < Len(C19_Working(k))
    /\ p < Len(C19_Sorted)
    /\ At(C19_Working(k), p) = At(C19_Sorted, p)

\* The two rows on either side of the gap are the original ones.
C19_BoundariesOriginal(k) ==
    LET g == C19_Order[k]
    IN C19_Original(k, g - 1) /\ C19_Original(k, g)

\* The rows the normal step is taken from are original ones.
C19_StepOriginal(k) ==
    LET g == C19_Order[k]
    IN IF g - 1 > 0 THEN C19_Original(k, g - 2) /\ C19_Original(k, g - 1)
       ELSE Len(C19_Working(k)) > g + 1
            => C19_Original(k, g) /\ C19_Original(k, g + 1)

C19_Case ==
    /\ C12_GapCase
    /\ call.time_col = TimeCol
    /\ numeric_cols_except(data, call.time_col) # <<>>

\* C19: because correct_gaps processes flagged positions in descending
\* order, when a flagged position g is processed the rows at positions g-1
\* and g of the working table are still the original rows on either side of
\* the gap, and the interval its normal step is taken from (g-2 to g-1, or
\* g to g+1 when g-1 is the first row) consists of original rows, whatever
\* was inserted for higher positions.
C19_OriginalRows ==
    C19_Case =>
        \A k \in 1..Len(C19_Order) :
            C19_Processed(k) => C19_BoundariesOriginal(k) /\ C19_StepOriginal(k)

\* Position 1 is processed after position 2 has been filled: row 2 of the
\* working table is then the first row inserted for position 2.
C19_AfterFilledNeighbour(k) ==
    /\ C19_Order[k] = 1
    /\ C12_Filled(2)

\* C19 as the code has it: the two rows on either side of the gap are always
\* the original ones, and so are the rows of the step interval, except that
\* position 1 following a filled position 2 takes its step from row 1 to
\* the first row inserted for position 2; that step equals the width of the
\* gap at position 1, which is then skipped, as it would be with the step
\* from the original rows.
C19_OriginalRowsButAfterFirst ==
    C19_Case =>
        \A k \in 1..Len(C19_Order) :
            C19_Processed(k) =>
                /\ C19_BoundariesOriginal(k)
                /\ ~C19_AfterFilledNeighbour(k) => C19_StepOriginal(k)
                /\ C19_AfterFilledNeighbour(k) =>
                      /\ ~C19_StepOriginal(k)
                      /\ At(C19_Working(k), 2)[call.time_col]
                            - At(C19_Working(k), 1)[call.time_col]
                         = At(C19_Sorted, 1)[call.time_col]
                            - At(C19_Sorted, 0)[call.time_col]
                      /\ ~C12_Filled(1)
                      /\ C19_Working(k + 1) = C19_Working(k)

\* Rows were inserted for a higher position before a lower one is processed
\* and filled; and position 1 is processed after position 2 was filled.
C19_Witness ==
    /\ C19_Case
    /\ \E k \in 2..Len(C19_Order) :
          /\ C19_Processed(k)
          /\ Len(C19_Working(k)) > Len(C19_Sorted)
          /\ C12_Filled(C19_Order[k])
    /\ Len_(result.table) >= Len_(data) + 2

C19_WitnessAfterFirst ==
    /\ C19_Case
    /\ \E k \in 2..Len(C19_Order) :
          C19_Processed(k) /\ C19_AfterFilledNeighbour(k)

-----------------------------------------------------------------------------
(* C20: detect_outliers when the MAD of the window is (nearly) zero *)

\* a/b < c/d for a, c >= 0 and b, d > 0, by whole parts and remainders.
RECURSIVE LessFrac(_, _, _, _)
LessFrac(a, b, c, d) ==
    IF a \div b # c \div d THEN a \div b < c \div d
    ELSE IF c % d = 0 THEN FALSE
    ELSE IF a % b = 0 THEN TRUE
    ELSE LessFrac(d, c % d, b, a % b)

C20_Values == Column(data, call.value_cols[1])

C20_Eps == CellEps(call.family)

\* The rows of the centred window of row i.
C20_First(i) == i - call.window_size \div 2

C20_Window(i) ==
    [k \in 1..call.window_size |-> At(C20_Values, C20_First(i) + k - 1)]

\* Row i has rolling statistics: its window lies inside the table and has no
\* missing cell.
C20_Defined(i) ==
    /\ i \in 0..(Len(C20_Values) - 1)
    /\ C20_First(i) >= 0
    /\ C20_First(i) + call.window_size <= Len(C20_Values)
    /\ \A k \in 1..call.window_size : C20_Window(i)[k] # NaN

\* Twice the window's median, four times its MAD, twice the row's deviation.
C20_Median2(i) == TwiceMedian(C20_Window(i))

C20_Mad4(i) ==
    TwiceMedian([k \in 1..call.window_size |->
                    Abs(2 * C20_Window(i)[k] - C20_Median2(i))])

C20_Dev2(i) == Abs(2 * At(C20_Values, i) - C20_Median2(i))

\* 1.4826 * MAD < 1e-6.
C20_MadBelowEps(i) ==
    LessFrac(MadScaleNum * C20_Mad4(i), 4 * MadScaleDen, C20_Eps.num, C20_Eps.den)

\* |value - median| > k * 1e-6.
C20_DevAbove(i, k) == LessFrac(k * C20_Eps.num, C20_Eps.den, C20_Dev2(i), 2)

\* |value - median| / scaled_mad > threshold.
C20_ZAboveThreshold(i) ==
    LessFrac(call.threshold, 1, 2 * MadScaleDen * C20_Dev2(i),
             MadScaleNum * C20_Mad4(i))

C20_Flagged(i) == \E k \in 1..Len(result.indices) : result.indices[k] = i

C20_Case ==
    /\ pc = "detected"
    /\ call.fn = "detect_outliers"

\* C20: for a row with defined rolling statistics whose scaled MAD is below
\* 1e-6, the row is flagged if and only if its absolute deviation from the
\* rolling median exceeds 1e-6, independently of threshold; when the scaled
\* MAD is at least 1e-6 the row is flagged iff
\* |value - median| / scaled_mad > threshold.
C20_FlagIffAboveEps ==
    C20_Case =>
        \A i \in 0..(Len(C20_Values) - 1) :
            C20_Defined(i) =>
                IF C20_MadBelowEps(i)
                THEN C20_Flagged(i) <=> C20_DevAbove(i, 1)
                ELSE C20_Flagged(i) <=> C20_ZAboveThreshold(i)

\* C20 as the code has it: with a scaled MAD below 1e-6 the row is flagged
\* iff its deviation exceeds 1e-6 and exceeds threshold * 1e-6, that is,
\* max(1, threshold) * 1e-6; with a scaled MAD of at least 1e-6 it is flagged
\* iff |value - median| / scaled_mad > threshold; a row without rolling
\* statistics is never flagged.
C20_FlagIffAboveThresholdEps ==
    C20_Case =>
        \A i \in 0..(Len(C20_Values) - 1) :
            IF ~C20_Defined(i) THEN ~C20_Flagged(i)
            ELSE IF C20_MadBelowEps(i)
            THEN C20_Flagged(i) <=>
                    C20_DevAbove(i, 1) /\ C20_DevAbove(i, call.threshold)
            ELSE C20_Flagged(i) <=> C20_ZAboveThreshold(i)

\* With threshold 3: a row over a zero MAD that deviates by more than 1e-6
\* but not by more than 3e-6 and is not flagged, and a row over a zero MAD
\* that is flagged.
C20_Witness ==
    /\ C20_Case
    /\ call.threshold = 3
    /\ \E i \in 0..(Len(C20_Values) - 1) :
          /\ C20_Defined(i)
          /\ C20_MadBelowEps(i)
          /\ C20_DevAbove(i, 1)
          /\ ~C20_DevAbove(i, 3)
          /\ ~C20_Flagged(i)
    /\ \E i \in 0..(Len(C20_Values) - 1) :
          /\ C20_Defined(i)
          /\ C20_MadBelowEps(i)
          /\ C20_Flagged(i)

\* Both branches in one call: a row over a MAD of at least 1e-6 that is
\* flagged by its z-score.
C20_WitnessPositiveMad ==
    /\ C20_Case
    /\ \E i \in 0..(Len(C20_Values) - 1) :
          C20_Defined(i) /\ ~C20_MadBelowEps(i) /\ C20_Flagged(i)

-----------------------------------------------------------------------------
(* C21: detect_outliers and rows without a full window *)

\* The window of row i lies inside the table and holds no missing value.
C21_FullWindow(i) ==
    LET n == Len_(data)
        lo == i - call.window_size \div 2
    IN /\ lo >= 0
       /\ lo + call.window_size <= n
       /\ \A j \in lo..(lo + call.window_size - 1) :
             Cell(data, call.value_cols[1], j) # NaN

\* C21: detect_outliers never flags a position that lacks a full centred
\* window of window_size rows: it returns empty when the table has fewer
\* than window_size rows, and otherwise never flags a row whose centred
\* window would extend past the table or contains a missing value.
C21_NoFlagWithoutFullWindow ==
    (pc = "detected" /\ call.fn = "detect_outliers") =>
        /\ Len_(data) < call.window_size => result.indices = <<>>
        /\ \A k \in 1..Len(result.indices) :
              /\ result.indices[k] \in 0..(Len_(data) - 1)
              /\ C21_FullWindow(result.indices[k])

\* A call that flags a row although the first row, the last row and a row
\* next to a missing value deviate just as much and are not flagged.
C21_Witness ==
    /\ pc = "detected"
    /\ call.fn = "detect_outliers"
    /\ call.window_size = 3
    /\ result.indices # <<>>
    /\ Len_(data) >= 5
    /\ \E i \in 0..(Len_(data) - 1) : Cell(data, "Y1", i) = NaN
    /\ Cell(data, "Y1", 0) # Cell(data, "Y1", 1)
    /\ Cell(data, "Y1", 0) # NaN /\ Cell(data, "Y1", 1) # NaN

\* A call on a table shorter than the window.
C21_WitnessShort ==
    /\ pc = "detected"
    /\ call.fn = "detect_outliers"
    /\ Len_(data) > 0
    /\ Len_(data) < call.window_size

-----------------------------------------------------------------------------
(* C22: the order in which correct_outliers works through its findings *)

C22_Case ==
    /\ pc = "returned"
    /\ call.fn = "correct_outliers"
    /\ call.method \in {"median", "mean"}
    /\ call.indices # <<>>

\* The median (mean) of the present values of s as a cell; NaN without one.
C22_Replacement(s) ==
    IF Present(s) = <<>> THEN NaN
    ELSE IF call.method = "median" THEN TwiceMedian(s) \div 2
    ELSE C15_Total(Present(s)) \div Len(Present(s))

\* The reading in which earlier replacements are visible: each finding in
\* turn is replaced from the values, as they stand, of its window without
\* itself and without the findings still to come.
RECURSIVE C22_Visible(_, _)
C22_Visible(values, idxs) ==
    IF idxs = <<>> THEN values
    ELSE LET p == Head(idxs)
             half == call.window_size \div 2
             rows == [k \in 1..Len(values) |-> k - 1]
             near == SelectSeq(rows, LAMBDA j : /\ p - half <= j
                                                /\ j <= p + half
                                                /\ j # p
                                                /\ j \notin Range(Tail(idxs)))
             v == C22_Replacement([k \in 1..Len(near) |-> At(values, near[k])])
         IN C22_Visible(IF v = NaN THEN values
                        ELSE [k \in 1..Len(values) |-> IF k - 1 = p THEN v ELSE values[k]],
                        Tail(idxs))

\* C22: replacement with median or mean is order-dependent: the replacement
\* of a later finding is drawn from the table as it stands at that time and
\* includes the already-replaced value of an earlier finding in its window.
C22_SeesEarlierReplacements ==
    C22_Case =>
        Column(result.table, "Y1") = C22_Visible(Column(data, "Y1"), call.indices)

\* C22 as the code has it: every flagged position stays excluded from every
\* window for the whole loop, so no replacement is ever drawn from a replaced
\* value, and the result is the same for the findings in reverse order, in
\* ascending order and without repetitions.
C22_OrderIndependent ==
    C22_Case =>
        /\ result.table = correct_outliers(data, Reverse(call.indices), "Y1",
                                           call.window_size, call.method)
        /\ result.table = correct_outliers(data, SortAsc(call.indices), "Y1",
                                           call.window_size, call.method)
        /\ result.table = correct_outliers(data, SeqOfSet(Range(call.indices)), "Y1",
                                           call.window_size, call.method)
        /\ \A i \in 0..(Len_(data) - 1) :
              C15_Flagged(i) /\ ~C15_OutlierSkipped(i) =>
                  Cell(result.table, "Y1", i) = C22_Replacement(C15_NeighbourValues(i))

\* Two findings next to each other, the first one replaced by a new value,
\* the second one replaced from the far side only.
C22_Witness ==
    /\ C22_Case
    /\ Len(call.indices) = 2
    /\ Abs(call.indices[1] - call.indices[2]) = 1
    /\ Cell(result.table, "Y1", call.indices[1]) # Cell(data, "Y1", call.indices[1])
    /\ Cell(result.table, "Y1", call.indices[2]) # Cell(data, "Y1", call.indices[2])
    /\ Column(result.table, "Y1") # C22_Visible(Column(data, "Y1"), call.indices)

-----------------------------------------------------------------------------
(* C23: the window correct_outliers takes a replacement from *)

\* The unflagged positions other than p among the rows lo .. hi of the table.
C23_NeighboursIn(p, lo, hi) ==
    LET rows == [k \in 1..Len_(data) |-> k - 1]
    IN SelectSeq(rows, LAMBDA j : lo <= j /\ j <= hi /\ j # p /\ ~C15_Flagged(j))

C23_ValuesIn(p, lo, hi) ==
    LET near == C23_NeighboursIn(p, lo, hi)
    IN [k \in 1..Len(near) |-> Cell(data, "Y1", near[k])]

\* Row p of the result is the replacement from the rows lo .. hi, or the
\* original value when these hold no neighbour.
C23_ReplacedFrom(p, lo, hi) ==
    Cell(result.table, "Y1", p) =
        IF C22_Replacement(C23_ValuesIn(p, lo, hi)) = NaN THEN Cell(data, "Y1", p)
        ELSE C22_Replacement(C23_ValuesIn(p, lo, hi))

\* C23: the replacement for a flagged position p is the median (mean) of the
\* values in a window of width window_size centred on p and clipped to the
\* table, without p and every other flagged position: at most
\* window_size - 1 neighbour values, for odd and for even window_size (the
\* extra position of an even window on either side of p); the position is
\* left unchanged when there is no such neighbour.
C23_WindowOfWidth ==
    C22_Case =>
        \A p \in 0..(Len_(data) - 1) :
            C15_Flagged(p) =>
                \E lo \in {p - call.window_size \div 2, p - (call.window_size - 1) \div 2} :
                    /\ C23_ReplacedFrom(p, lo, lo + call.window_size - 1)
                    /\ Len(C23_NeighboursIn(p, lo, lo + call.window_size - 1))
                          <= call.window_size - 1

\* C23 as the code has it: the window is the rows p - window_size // 2 to
\* p + window_size // 2, clipped to the table: window_size positions for an
\* odd window_size and window_size + 1 for an even one, so that up to
\* window_size - 1 (odd) or window_size (even) neighbour values are used; the
\* position is left unchanged when no such neighbour exists.
C23_WindowOfHalves ==
    C22_Case =>
        /\ SameOutside(result.table, data, "Y1")
        /\ \A p \in 0..(Len_(data) - 1) :
              IF C15_Flagged(p)
              THEN LET half == call.window_size \div 2
                   IN /\ C23_ReplacedFrom(p, p - half, p + half)
                      /\ Len(C23_NeighboursIn(p, p - half, p + half)) <= 2 * half
              ELSE Cell(result.table, "Y1", p) = Cell(data, "Y1", p)

\* window_size 2: a flagged row between two unflagged rows on different
\* levels is replaced by a value that is neither of them.
C23_Witness ==
    /\ C22_Case
    /\ call.window_size = 2
    /\ \E p \in 1..(Len_(data) - 2) :
          /\ C15_Flagged(p)
          /\ Len(C23_NeighboursIn(p, p - 1, p + 1)) = 2
          /\ Cell(data, "Y1", p - 1) # Cell(data, "Y1", p + 1)
          /\ Cell(result.table, "Y1", p) # Cell(data, "Y1", p - 1)
          /\ Cell(result.table, "Y1", p) # Cell(data, "Y1", p + 1)

-----------------------------------------------------------------------------
(* C24: the single pass of detect_jumps *)

C24_Case ==
    /\ pc = "detected"
    /\ call.fn = "detect_jumps"

C24_Values == Column(data, "Y1")

C24_IsFlagged(i) == \E k \in 1..Len(result.indices) : result.indices[k] = i

\* The position the running sum was last started after: the last flagged
\* position before i, or window_size - 1.
C24_Restart(i) ==
    LET earlier == {f \in (call.window_size)..(i - 1) : C24_IsFlagged(f)}
    IN IF earlier = {} THEN call.window_size - 1
       ELSE CHOOSE f \in earlier : \A g \in earlier : g <= f

\* The sum of the normalized deviations of positions from..to (0 when
\* empty, NaN when one of them is undefined).
RECURSIVE C24_Sum(_, _)
C24_Sum(from, to) ==
    IF from > to THEN 0
    ELSE Add(C24_Sum(from, to - 1),
             normalized_dev(C24_Values, call.window_size, to))

\* cusum at the start of iteration i, and after position i was added.
C24_CusumBefore(i) == C24_Sum(C24_Restart(i) + 1, i - 1)

C24_CusumAt(i) == C24_Sum(C24_Restart(i) + 1, i)

C24_Exceeds(c) == c # NaN /\ Abs(c) > call.threshold * CusumScale

C24_Pass(bounded(_)) ==
    /\ Len(C24_Values) < 2 * call.window_size => result.indices = <<>>
    /\ \A k \in 1..Len(result.indices) :
          /\ result.indices[k] \in (call.window_size)..(Len(C24_Values) - 1)
          /\ k > 1 => result.indices[k - 1] < result.indices[k]
    /\ Len(C24_Values) >= 2 * call.window_size =>
          \A i \in (call.window_size)..(Len(C24_Values) - 1) :
              /\ C24_IsFlagged(i) <=> C24_Exceeds(C24_CusumAt(i))
              /\ bounded(C24_CusumBefore(i))

\* C24: detect_jumps is a single left-to-right pass over positions
\* window_size..n-1 with one running sum: empty when n < 2*window_size;
\* position i is flagged iff the sum of the normalized deviations since the
\* previous flagged position (or since window_size) up to and including i has
\* absolute value > threshold; the sum is reset to 0 exactly when a position
\* is flagged, so at the start of every iteration |cusum| <= threshold, and
\* the flagged positions are strictly increasing.
C24_SinglePass ==
    C24_Case =>
        C24_Pass(LAMBDA c : c # NaN /\ Abs(c) <= call.threshold * CusumScale)

\* The same pass where the running sum may be undefined: at the start of
\* every iteration cusum is NaN or |cusum| <= threshold.
C24_SinglePassOrUndefined ==
    C24_Case =>
        C24_Pass(LAMBDA c : c = NaN \/ Abs(c) <= call.threshold * CusumScale)

\* A pass that flags two positions, the sum starting again after the first.
C24_Witness ==
    /\ C24_Case
    /\ Len(result.indices) >= 2
    /\ \E i \in (call.window_size)..(Len(C24_Values) - 1) :
          ~C24_IsFlagged(i) /\ C24_CusumAt(i) # 0 /\ C24_CusumAt(i) # NaN

\* A pass whose running sum became undefined at a missing value.
C24_Undefined ==
    /\ C24_Case
    /\ \E i \in (call.window_size)..(Len(C24_Values) - 1) : C24_CusumBefore(i) = NaN

-----------------------------------------------------------------------------
(* C25: the positions correct_jumps skips *)

\* correct_jumps was called with one finding.
C25_Case ==
    /\ pc = "returned"
    /\ call.fn = "correct_jumps"
    /\ Len(call.indices) = 1

C25_Position == call.indices[1]

\* The window_size values before the position and the window_size values
\* from the position on.
C25_Before ==
    [k \in 1..call.window_size |->
        Cell(data, "Y1", C25_Position - call.window_size + k - 1)]

C25_After ==
    [k \in 1..call.window_size |-> Cell(data, "Y1", C25_Position + k - 1)]

\* Both windows lie inside the table.
C25_WindowsExist ==
    /\ C25_Position - call.window_size >= 0
    /\ C25_Position + call.window_size - 1 <= Len_(data) - 1

C25_MediansDefined == Present(C25_Before) # <<>> /\ Present(C25_After) # <<>>

\* The table with median_before - median_after added from the position on.
C25_Shifted ==
    /\ SameOutside(result.table, data, "Y1")
    /\ \A i \in 0..(Len_(data) - 1) :
          Cell(result.table, "Y1", i) =
              IF i < C25_Position \/ Cell(data, "Y1", i) = NaN
              THEN Cell(data, "Y1", i)
              ELSE Cell(data, "Y1", i)
                   + (TwiceMedian(C25_Before) - TwiceMedian(C25_After)) \div 2

\* C25: correct_jumps skips a flagged position p if and only if fewer than
\* window_size rows exist on either side of it: p is corrected whenever the
\* values at p-window_size..p-1 and at p..p+window_size-1 all exist in the
\* table and have defined medians, including p = n - window_size.
C25_SkipIffWindowMissing ==
    C25_Case =>
        IF C25_WindowsExist /\ C25_MediansDefined
        THEN C25_Shifted
        ELSE result.table = data

\* C25 as the code has it: p is skipped iff p < window_size or
\* p >= n - window_size (window_size rows before p and window_size rows
\* after p, p itself not counted, although the after-window is
\* p..p+window_size-1), or one of the two windows has no present value;
\* p = n - window_size is skipped.
C25_SkipIffMarginMissing ==
    C25_Case =>
        IF /\ C25_Position >= call.window_size
           /\ Len_(data) - 1 - C25_Position >= call.window_size
           /\ C25_MediansDefined
        THEN C25_Shifted
        ELSE result.table = data

\* The position n - window_size, with both windows in the table and
\* different medians, comes back unchanged.
C25_Witness ==
    /\ C25_Case
    /\ C25_Position = Len_(data) - call.window_size
    /\ C25_WindowsExist
    /\ C25_MediansDefined
    /\ TwiceMedian(C25_Before) # TwiceMedian(C25_After)
    /\ result.table = data

\* A position with margin on both sides is shifted.
C25_WitnessShifted ==
    /\ C25_Case
    /\ call.window_size = 2
    /\ C25_Position >= 2
    /\ Len_(data) - 1 - C25_Position >= 2
    /\ result.table # data

-----------------------------------------------------------------------------
(* C26: the offsets of correct_jumps compound in ascending order *)

C26_Case ==
    /\ pc = "returned"
    /\ call.fn = "correct_jumps"
    /\ call.indices # <<>>

\* The findings in ascending order.
C26_Ascending == SortAsc(call.indices)

\* The values after the offsets offs[1..Len(offs)] of the first findings
\* were added, each from its position on (a missing value stays missing).
C26_Compound(offs) ==
    [i \in 1..Len_(data) |->
        IF Cell(data, "Y1", i - 1) = NaN THEN NaN
        ELSE Cell(data, "Y1", i - 1)
             + C15_Total([k \in 1..Len(offs) |->
                             IF C26_Ascending[k] <= i - 1 THEN offs[k] ELSE 0])]

\* The offset of position q on the values: median of the window_size values
\* before q minus median of the window_size values from q on; 0 when q is
\* skipped.
C26_Offset(values, q) ==
    LET w == call.window_size
    IN IF q < w \/ q >= Len(values) - w THEN 0
       ELSE LET before == SubSeq(values, q - w + 1, q)
                after == SubSeq(values, q + 1, q + w)
            IN IF Present(before) = <<>> \/ Present(after) = <<>> THEN 0
               ELSE (TwiceMedian(before) - TwiceMedian(after)) \div 2

\* The offsets of the first k findings, each computed on the values as the
\* earlier offsets left them.
RECURSIVE C26_Offsets(_)
C26_Offsets(k) ==
    IF k = 0 THEN <<>>
    ELSE LET earlier == C26_Offsets(k - 1)
         IN Append(earlier, C26_Offset(C26_Compound(earlier), C26_Ascending[k]))

\* C26: correct_jumps processes the flagged positions in ascending order
\* whatever order they are given in, and offsets compound: the offset for a
\* position is computed from the table after the offsets of the lower
\* positions were added, and in the result every value equals its original
\* value plus the sum of the offsets of all corrected positions <= its
\* position; values before the smallest corrected position are unchanged.
C26_OffsetsCompound ==
    C26_Case =>
        /\ SameOutside(result.table, data, "Y1")
        /\ Column(result.table, "Y1") = C26_Compound(C26_Offsets(Len(call.indices)))
        /\ \A i \in 0..(Len_(data) - 1) :
              (\A k \in 1..Len(call.indices) :
                  C26_Offsets(Len(call.indices))[k] # 0 => i < C26_Ascending[k])
              => Cell(result.table, "Y1", i) = Cell(data, "Y1", i)

\* Two jumps given in descending order, both corrected, the offset of the
\* higher one differing from what the original table would give.
C26_Witness ==
    /\ C26_Case
    /\ Len(call.indices) = 2
    /\ call.indices[1] > call.indices[2]
    /\ C26_Offsets(2)[1] # 0
    /\ C26_Offsets(2)[2] # 0
    /\ C26_Offsets(2)[2] # C26_Offset(Column(data, "Y1"), call.indices[1])

-----------------------------------------------------------------------------
(* C27: interpolation under gap method "time" *)

\* correct_gaps was called with method "time" on a table with a numeric time
\* column, to fill Y1.
C27_Case ==
    /\ C12_GapCase
    /\ call.method = "time"
    /\ call.time_col = TimeCol
    /\ call.value_cols = <<"Y1">>

\* The value of inserted row k of the filled gap g.
C27_Filled(g, k) == Cell(result.table, "Y1", g + C12_Added(g - 1) + k - 1)

C27_ValueBefore(g) == Cell(sort_values(data, call.time_col), "Y1", g - 1)

C27_ValueAfter(g) == Cell(sort_values(data, call.time_col), "Y1", g)

\* v lies, to within one quantum, on the line through the two boundary rows
\* of gap g at time t.
C27_OnTimeLine(g, t, v) ==
    LET span == C18_After(g) - C18_Before(g)
    IN Abs((v - C27_ValueBefore(g)) * span
           - (C27_ValueAfter(g) - C27_ValueBefore(g)) * (t - C18_Before(g))) < span

\* v lies, to within one quantum, on the line through the two boundary rows
\* of gap g at row k of the missing_count rows between them.
C27_OnRowLine(g, k, v) ==
    LET span == C12_MissingCount(g) + 1
    IN Abs((v - C27_ValueBefore(g)) * span
           - (C27_ValueAfter(g) - C27_ValueBefore(g)) * k) < span

\* C27: with method "time" and a valid numeric time column, the values
\* filled are weighted by the timestamps of the rows (the fallback to
\* row-position interpolation is only for tables without a time-based index).
C27_TimeWeighted ==
    C27_Case =>
        \A g \in C18_Gaps :
            \A k \in 1..C12_MissingCount(g) :
                C27_OnTimeLine(g, C18_Inserted(g, k), C27_Filled(g, k))

\* What the code does: the values filled under "time" are those of
\* row-position interpolation, whatever the timestamps.
C27_RowWeighted ==
    C27_Case =>
        \A g \in C18_Gaps :
            \A k \in 1..C12_MissingCount(g) :
                C27_OnRowLine(g, k, C27_Filled(g, k))

\* Rows inserted at uneven times whose values are evenly spaced.
C27_Uneven ==
    /\ C27_Case
    /\ \E g \in C18_Gaps :
          /\ ~C18_Even(g)
          /\ ~C27_OnTimeLine(g, C18_Inserted(g, 2), C27_Filled(g, 2))

-----------------------------------------------------------------------------
(* C28: gaps left after the gap stage *)

C28_StrictlyIncreasing(t) ==
    \A i \in 1..(Len_(t) - 1) :
        /\ Cell(t, config.time_col, i - 1) # NaN
        /\ Cell(t, config.time_col, i) # NaN
        /\ Cell(t, config.time_col, i - 1) < Cell(t, config.time_col, i)

\* The gap stage of process_data has run on a time-sorted table with
\* strictly increasing timestamps: entry k of the log is its correction.
C28_Corrected(k) ==
    /\ call.fn = "process_data"
    /\ k \in 2..Len(log)
    /\ log[k].stage = "correct_gaps"
    /\ log[k - 1].stage = "detect_gaps"
    /\ log[k - 1].out # <<>>
    /\ C28_StrictlyIncreasing(log[k].read)

\* C28: the gap stage removes every gap it detects: running detect_gaps
\* again on the corrected table with the same threshold factor returns the
\* empty set, also when two flagged gaps are adjacent.
C28_NoGapLeft ==
    \A k \in 1..Len(log) :
        C28_Corrected(k) =>
            detect_gaps(log[k].out, config.time_col, config.gap_threshold_factor) = <<>>

\* Two adjacent flagged gaps: the lower one is filled, the upper one, whose
\* preceding interval is the lower gap, is left as it was and is detected
\* again.
C28_AdjacentLeft ==
    \E k \in 1..Len(log) :
        /\ C28_Corrected(k)
        /\ Len(log[k - 1].out) = 2
        /\ log[k - 1].out[2] = log[k - 1].out[1] + 1
        /\ Len_(log[k].out) > Len_(log[k].read)
        /\ detect_gaps(log[k].out, config.time_col, config.gap_threshold_factor) # <<>>

-----------------------------------------------------------------------------
(* C29: the levels on either side of a corrected jump position *)

\* The k-th position in ascending order was corrected, not skipped: it has
\* window_size rows on either side, and both windows had a present value in
\* the values as the earlier offsets left them.
C29_Corrected(k) ==
    LET q == C26_Ascending[k]
        w == call.window_size
        values == C26_Compound(C26_Offsets(k - 1))
    IN /\ q >= w
       /\ q < Len(values) - w
       /\ Present(SubSeq(values, q - w + 1, q)) # <<>>
       /\ Present(SubSeq(values, q + 1, q + w)) # <<>>

\* In the returned table the median of the values at q..q+window_size-1
\* equals the median of the values at q-window_size..q-1.
C29_Aligned(q) ==
    LET w == call.window_size
        values == Column(result.table, "Y1")
    IN TwiceMedian(SubSeq(values, q + 1, q + w))
           = TwiceMedian(SubSeq(values, q - w + 1, q))

\* A higher position within window_size of the k-th was corrected with a
\* non-zero offset after it.
C29_ShiftedLater(k) ==
    \E j \in (k + 1)..Len(call.indices) :
        /\ C26_Ascending[j] > C26_Ascending[k]
        /\ C26_Ascending[j] < C26_Ascending[k] + call.window_size
        /\ C26_Offsets(j)[j] # 0

\* C29: in the table correct_jumps returns, every flagged position p that
\* was corrected (not skipped) has aligned levels: the median of the values
\* at p..p+window_size-1 equals the median of the values at
\* p-window_size..p-1, for any finding set, including two flagged positions
\* closer together than window_size.
C29_LevelsAligned ==
    C26_Case =>
        \A k \in 1..Len(call.indices) :
            C29_Corrected(k) => C29_Aligned(C26_Ascending[k])

\* What the code gives: a corrected position has aligned levels in the
\* returned table when no higher position inside its after-window was
\* shifted after it.
C29_LevelsAlignedWhenApart ==
    C26_Case =>
        \A k \in 1..Len(call.indices) :
            C29_Corrected(k) /\ ~C29_ShiftedLater(k)
                => C29_Aligned(C26_Ascending[k])

\* Two corrected positions closer together than window_size; the levels
\* around the lower one differ in the returned table.
C29_Overlapping ==
    /\ C26_Case
    /\ Len(call.indices) = 2
    /\ call.window_size = 2
    /\ C26_Ascending[2] = C26_Ascending[1] + 1
    /\ C29_Corrected(1)
    /\ C29_Corrected(2)
    /\ ~C29_Aligned(C26_Ascending[1])
    /\ C29_Aligned(C26_Ascending[2])

-----------------------------------------------------------------------------
(* C30: output paths of different input files *)

\* Writes a and b of the run are of two different input files.
C30_DifferentFiles(a, b) == batch.writes[a].file # batch.writes[b].file

\* C30: within one batch_process run that is not a dry run, two different
\* input files (different series, year or Y-index) are never written to the
\* same output path, so no file's corrected output overwrites another's.
C30_NoOverwrite ==
    ~batch.dry_run =>
        \A a, b \in 1..Len(batch.writes) :
            C30_DifferentFiles(a, b) => batch.writes[a].path # batch.writes[b].path

\* What the code gives: the files of one series are written to different
\* paths, and so are the files of the fallback mode.
C30_NoOverwriteWithinSeries ==
    ~batch.dry_run =>
        \A a, b \in 1..Len(batch.writes) :
            /\ C30_DifferentFiles(a, b)
            /\ batch.writes[a].file.series = batch.writes[b].file.series
            => batch.writes[a].path # batch.writes[b].path

\* The main loop wrote the files of two series with the same year and
\* Y-index: the second write replaced the first.
C30_Overwritten ==
    /\ batch.pc = "returned"
    /\ ~batch.dry_run
    /\ Len(batch.writes) = 2
    /\ batch.writes[1].file.series = 26
    /\ batch.writes[2].file.series = 27
    /\ batch.writes[1].path = batch.writes[2].path
    /\ batch.writes[1].path = YearPath(batch.writes[1].file.year, 1)

=============================================================================
